---- MODULE Spec2Model ----
(***************************************************************************)
(* AREG SDK: the Service Manager (areg/component/private/ServiceManager)   *)
(* as a state machine.  The dispatcher thread consumes the commands that   *)
(* the request API posts, mutates the server directory (mServerList) and   *)
(* emits StubConnect / ProxyConnect events.                                *)
(*                                                                         *)
(* The handlers of ServiceManager.cpp are translated from the source.      *)
(* ServerList, ServerInfo, ClientInfo, the address classes and the event   *)
(* dispatcher base are not part of the sources at hand: they are modelled  *)
(* from the specification (sections 3, 4.1 and 4.4) and are marked so.     *)
(***************************************************************************)
EXTENDS Integers, Sequences, FiniteSets, TLC

VARIABLES
    thread,     \* state of the dispatcher thread: "idle", "running", "exited"
    starts,     \* how many times the dispatcher thread has been created
    stopper,    \* position of the caller of _stopServiceManagerThread
    queue,      \* the dispatcher's queue of ServiceManagerEvent commands
    posted,     \* number of commands posted so far
    dir,        \* mServerList: sequence of [key, server, clients]
    router,     \* mConnectService: [enabled, configured, started]
    last,       \* the step the dispatcher processed last:
                \* [cmd, ev, rc, dir, pending]
    events,     \* every connect event emitted so far, in emission order
    live,       \* history: which addresses have a register command outstanding
    posting,    \* the last call of postEvent: [class, result, destroyed]
    mLock,      \* owner of ServiceManager::mLock: "free", "reader", "manager",
                \* "starter"
    handler,    \* the dispatcher thread inside a handler: "idle", "mutating"
    reader,     \* a thread in getServiceList: [pc, cookie, pos, out, present]
    starter,    \* the callers of _startServiceManagerThread, each
                \* [pc, ready, result, created]
    component,  \* NERegistry: a ComponentEntry being declared
    list,       \* NERegistry: a TEListBase<ServiceEntry>, its mList
    compThread, \* NERegistry: a ComponentThreadEntry being declared
    model,      \* NERegistry: a Model, [mModelThreads, mIsLoaded]
    lastCall,   \* NERegistry: the last call made and what it returned
    sorted,     \* TESortedLinkedList: [mSorting, mValueList]
    walk,       \* TESortedLinkedList: the last call made and what it returned
    property,   \* Property: [prop, text, parsed]
    arrays      \* TEFixedArray: [a, b, eq, ne]

\* The state of the Service Manager.
serviceManagerVars == <<thread, starts, stopper, queue, posted, dir, router, last,
                        events, live, posting, mLock, handler, reader, starter>>

\* The state of the registry (areg/component/NERegistry).
registryVars == <<component, list, compThread, model, lastCall>>

\* The state of the containers and of the configuration property
\* (areg/base/TESortedLinkedList, areg/base/TEFixedArray, areg/persist/Property).
libraryVars == <<registryVars, sorted, walk, property, arrays>>

vars == <<thread, starts, stopper, queue, posted, dir, router, last, events, live,
          posting, mLock, handler, reader, starter, component, list, compThread,
          model,
          lastCall, sorted, walk, property, arrays>>

\* The state of a getServiceList call and of the lock it takes.
snapshotVars == <<mLock, handler, reader>>

----------------------------------------------------------------------------
(* Bounds of the model.                                                    *)

MaxCmds == 4
MaxQueue == 2
MaxStarts == 1

\* The longest registry list of the list model.
MaxEntries == 3

\* The most components declared in one thread entry.
MaxComponents == 2

\* The most elements of the sorted list.
MaxSize == 3

\* The most elements of a fixed array.
MaxElems == 2

\* The most threads that call _startServiceManagerThread.
MaxCallers == 2

\* The most dispatcher threads created in the model of the start calls.
MaxThreads == 3

----------------------------------------------------------------------------
(* NEService: constants and the connection status domain.                  *)

COOKIE_UNKNOWN == "cookie-unknown"
COOKIE_LOCAL == "cookie-local"
COOKIE_REMOTE == "cookie-remote"
COOKIE_ANY == "cookie-any"
SOURCE_UNKNOWN == "source-unknown"
NO_CHANNEL == "no-channel"

ServicePending == "Pending"
ServiceConnected == "Connected"
ServiceDisconnected == "Disconnected"

----------------------------------------------------------------------------
(* Addresses.  A StubAddress and a ProxyAddress share the shape            *)
(* (interface, role, category, cookie, source, channel).                   *)

Address(iface, role, cat, cookie, source, channel) ==
    [iface |-> iface, role |-> role, cat |-> cat, cookie |-> cookie,
     source |-> source, channel |-> channel]

\* The empty (default constructed) address.
EmptyAddress == Address("", "", "local", COOKIE_UNKNOWN, SOURCE_UNKNOWN, NO_CHANNEL)

isValid(a) == a.iface # "" /\ a.role # ""
isLocalAddress(a) == a.cookie = COOKIE_LOCAL
isRemoteAddress(a) == ~isLocalAddress(a)
isServicePublic(a) == a.cat = "public"
getSource(a) == a.source

\* operator== of the addresses: the channel does not take part.
AddressEqual(a, b) ==
    /\ a.iface = b.iface
    /\ a.role = b.role
    /\ a.cat = b.cat
    /\ a.cookie = b.cookie
    /\ a.source = b.source

setChannel(a, channel) == [a EXCEPT !.channel = channel]

\* A stub S matches a proxy P.
Compatible(S, P) ==
    /\ P.iface = S.iface
    /\ P.role = S.role
    /\ (isServicePublic(S) \/ (isLocalAddress(S) /\ isLocalAddress(P)))

----------------------------------------------------------------------------
(* ServerInfo, ClientInfo.                                                 *)

ServerInfo(addr, status) == [addr |-> addr, status |-> status]
ClientInfo(addr, status) == [addr |-> addr, status |-> status]

InvalidServerInfo == ServerInfo(EmptyAddress, ServiceDisconnected)
InvalidClientInfo == ClientInfo(EmptyAddress, ServiceDisconnected)

isConnected(client) == client.status = ServiceConnected
isWaitingConnection(client) == client.status \in {ServicePending, ServiceConnected}

\* A pending server entry holds the empty stub address.
isPendingServer(server) == ~isValid(server.addr)

----------------------------------------------------------------------------
(* ServerList: the directory, a sequence of entries                        *)
(* [key |-> <<interface, role>>, server |-> ServerInfo, clients |-> list]. *)

Entry(key, server, clients) == [key |-> key, server |-> server, clients |-> clients]

KeyOf(a) == <<a.iface, a.role>>

\* A lookup that misses the pending entries.
findServer_SkipPending(d, key) ==
    IF \E i \in 1..Len(d) : d[i].key = key /\ isValid(d[i].server.addr)
    THEN CHOOSE i \in 1..Len(d) : d[i].key = key /\ isValid(d[i].server.addr)
    ELSE 0

\* Index of the entry of the key, 0 if there is none.
findServer(d, key) ==
    IF \E i \in 1..Len(d) : d[i].key = key
    THEN CHOOSE i \in 1..Len(d) : d[i].key = key /\ \A j \in 1..(i-1) : d[j].key # key
    ELSE 0

\* Index of the client equal to the proxy address in a client list, 0 if none.
findClient(clients, proxy) ==
    IF \E i \in 1..Len(clients) : AddressEqual(clients[i].addr, proxy)
    THEN CHOOSE i \in 1..Len(clients) :
            /\ AddressEqual(clients[i].addr, proxy)
            /\ \A j \in 1..(i-1) : ~AddressEqual(clients[j].addr, proxy)
    ELSE 0

RemoveAt(s, i) == [k \in 1..(Len(s)-1) |-> IF k < i THEN s[k] ELSE s[k+1]]

ServerList_registerServer(d, stub) ==
    LET i == findServer(d, KeyOf(stub)) IN
    IF i = 0
    THEN LET server == ServerInfo(stub, ServiceConnected) IN
         [dir |-> Append(d, Entry(KeyOf(stub), server, <<>>)),
          server |-> server, out |-> <<>>]
    ELSE IF isPendingServer(d[i].server)
    THEN LET server == ServerInfo(stub, ServiceConnected)
             clients == [k \in 1..Len(d[i].clients) |->
                            IF Compatible(stub, d[i].clients[k].addr)
                            THEN ClientInfo(d[i].clients[k].addr, ServiceConnected)
                            ELSE d[i].clients[k]]
         IN [dir |-> [d EXCEPT ![i] = Entry(d[i].key, server, clients)],
             server |-> server,
             out |-> SelectSeq(clients, LAMBDA c : Compatible(stub, c.addr))]
    ELSE IF AddressEqual(d[i].server.addr, stub)
    THEN [dir |-> d, server |-> d[i].server, out |-> <<>>]
    ELSE [dir |-> d, server |-> InvalidServerInfo, out |-> <<>>]

ServerList_unregisterServer(d, stub) ==
    LET i == findServer(d, KeyOf(stub)) IN
    IF i = 0 \/ ~AddressEqual(d[i].server.addr, stub)
    THEN [dir |-> d, server |-> InvalidServerInfo, out |-> <<>>]
    ELSE LET server == ServerInfo(EmptyAddress, ServiceDisconnected)
             clients == [k \in 1..Len(d[i].clients) |->
                            ClientInfo(d[i].clients[k].addr, ServicePending)]
         IN [dir |-> IF Len(d[i].clients) = 0
                     THEN RemoveAt(d, i)
                     ELSE [d EXCEPT ![i] = Entry(d[i].key, server, clients)],
             server |-> server,
             out |-> d[i].clients]

\* A client is marked connected whenever the entry has a live stub.
ServerList_registerClient_AnyStub(d, proxy) ==
    LET i == findServer(d, KeyOf(proxy)) IN
    IF i = 0
    THEN LET client == ClientInfo(proxy, ServicePending)
             server == ServerInfo(EmptyAddress, ServicePending)
         IN [dir |-> Append(d, Entry(KeyOf(proxy), server, <<client>>)),
             server |-> server, client |-> client]
    ELSE LET server == d[i].server
             client == IF ~isPendingServer(server)
                       THEN ClientInfo(proxy, ServiceConnected)
                       ELSE ClientInfo(proxy, ServicePending)
             k == findClient(d[i].clients, proxy)
             clients == IF k = 0
                        THEN Append(d[i].clients, client)
                        ELSE [d[i].clients EXCEPT ![k] = client]
         IN [dir |-> [d EXCEPT ![i].clients = clients],
             server |-> server, client |-> client]

ServerList_registerClient(d, proxy) ==
    LET i == findServer(d, KeyOf(proxy)) IN
    IF i = 0
    THEN LET client == ClientInfo(proxy, ServicePending)
             server == ServerInfo(EmptyAddress, ServicePending)
         IN [dir |-> Append(d, Entry(KeyOf(proxy), server, <<client>>)),
             server |-> server, client |-> client]
    ELSE LET server == d[i].server
             client == IF    /\ ~isPendingServer(server)
                             /\ server.status = ServiceConnected
                             /\ Compatible(server.addr, proxy)
                       THEN ClientInfo(proxy, ServiceConnected)
                       ELSE ClientInfo(proxy, ServicePending)
             k == findClient(d[i].clients, proxy)
             clients == IF k = 0
                        THEN Append(d[i].clients, client)
                        ELSE [d[i].clients EXCEPT ![k] = client]
         IN [dir |-> [d EXCEPT ![i].clients = clients],
             server |-> server, client |-> client]

\* Index of the first entry that lists the proxy, 0 if none.
findClientEntry(d, proxy) ==
    IF \E i \in 1..Len(d) : findClient(d[i].clients, proxy) # 0
    THEN CHOOSE i \in 1..Len(d) :
            /\ findClient(d[i].clients, proxy) # 0
            /\ \A j \in 1..(i-1) : findClient(d[j].clients, proxy) = 0
    ELSE 0

ServerList_unregisterClient(d, proxy) ==
    LET i == findClientEntry(d, proxy) IN
    IF i = 0
    THEN [dir |-> d, server |-> InvalidServerInfo, client |-> InvalidClientInfo]
    ELSE LET k == findClient(d[i].clients, proxy)
             clients == RemoveAt(d[i].clients, k)
         IN [dir |-> IF isPendingServer(d[i].server) /\ Len(clients) = 0
                     THEN RemoveAt(d, i)
                     ELSE [d EXCEPT ![i].clients = clients],
             server |-> d[i].server,
             client |-> d[i].clients[k]]

----------------------------------------------------------------------------
(* Connect events and router calls.                                        *)

StubConnectEvent(addrProxy, addrStub, status) ==
    [kind |-> "StubConnect", proxy |-> addrProxy, stub |-> addrStub, status |-> status]

ProxyConnectEvent(addrProxy, addrStub, status) ==
    [kind |-> "ProxyConnect", proxy |-> addrProxy, stub |-> addrStub, status |-> status]

RouterCall(call, addr) == [call |-> call, addr |-> addr]

\* What a handler did: the directory it leaves, the connect events it
\* emitted and the calls it made to the router, both in order.
Done(d, ev, rc) == [dir |-> d, ev |-> ev, rc |-> rc]

----------------------------------------------------------------------------
(* ServiceManager: the private methods.                                    *)

\* The guard of the disconnect sender copied into the connect sender.
_sendClientConnectedEvent_Waiting(client, addrStub) ==
    IF isWaitingConnection(client)
    THEN LET addrProxy == client.addr IN
         (IF isLocalAddress(addrStub) /\ getSource(addrStub) # SOURCE_UNKNOWN
          THEN <<StubConnectEvent(addrProxy, addrStub, ServiceConnected)>>
          ELSE <<>>)
         \o
         (IF isLocalAddress(addrProxy) /\ getSource(addrProxy) # SOURCE_UNKNOWN
          THEN <<ProxyConnectEvent(addrProxy, addrStub, ServiceConnected)>>
          ELSE <<>>)
    ELSE <<>>

\* The two notifications swapped: the proxy is told before the stub.
_sendClientConnectedEvent_ProxyFirst(client, addrStub) ==
    IF isConnected(client)
    THEN LET addrProxy == client.addr IN
         (IF isLocalAddress(addrProxy) /\ getSource(addrProxy) # SOURCE_UNKNOWN
          THEN <<ProxyConnectEvent(addrProxy, addrStub, ServiceConnected)>>
          ELSE <<>>)
         \o
         (IF isLocalAddress(addrStub) /\ getSource(addrStub) # SOURCE_UNKNOWN
          THEN <<StubConnectEvent(addrProxy, addrStub, ServiceConnected)>>
          ELSE <<>>)
    ELSE <<>>

_sendClientConnectedEvent(client, addrStub) ==
    IF isConnected(client)
    THEN LET addrProxy == client.addr IN
         (IF isLocalAddress(addrStub) /\ getSource(addrStub) # SOURCE_UNKNOWN
          THEN <<StubConnectEvent(addrProxy, addrStub, ServiceConnected)>>
          ELSE <<>>)
         \o
         (IF isLocalAddress(addrProxy) /\ getSource(addrProxy) # SOURCE_UNKNOWN
          THEN <<ProxyConnectEvent(addrProxy, addrStub, ServiceConnected)>>
          ELSE <<>>)
    ELSE <<>>

\* The guard of the connect sender copied into the disconnect sender.
_sendClientDisconnectedEvent_ConnectedOnly(client, addrStub) ==
    IF isConnected(client)
    THEN LET addrProxy == client.addr IN
         (IF isLocalAddress(addrStub) /\ getSource(addrStub) # SOURCE_UNKNOWN
          THEN <<StubConnectEvent(addrProxy, addrStub, ServiceDisconnected)>>
          ELSE <<>>)
         \o
         (IF isLocalAddress(addrProxy)
          THEN <<ProxyConnectEvent(addrProxy, addrStub, ServiceDisconnected)>>
          ELSE <<>>)
    ELSE <<>>

_sendClientDisconnectedEvent(client, addrStub) ==
    IF isWaitingConnection(client)
    THEN LET addrProxy == client.addr IN
         (IF isLocalAddress(addrStub) /\ getSource(addrStub) # SOURCE_UNKNOWN
          THEN <<StubConnectEvent(addrProxy, addrStub, ServiceDisconnected)>>
          ELSE <<>>)
         \o
         (IF isLocalAddress(addrProxy)
          THEN <<ProxyConnectEvent(addrProxy, addrStub, ServiceDisconnected)>>
          ELSE <<>>)
    ELSE <<>>

\* The loops over a client list: one call of the sender for each client.
RECURSIVE SendConnectedToAll(_, _)
SendConnectedToAll(clientList, addrStub) ==
    IF clientList = <<>> THEN <<>>
    ELSE _sendClientConnectedEvent(Head(clientList), addrStub)
            \o SendConnectedToAll(Tail(clientList), addrStub)

RECURSIVE SendDisconnectedToAll(_, _)
SendDisconnectedToAll(clientList, addrStub) ==
    IF clientList = <<>> THEN <<>>
    ELSE _sendClientDisconnectedEvent(Head(clientList), addrStub)
            \o SendDisconnectedToAll(Tail(clientList), addrStub)

\* Only the first waiting client is notified (an if in place of the loop).
_registerServer_FirstClientOnly(d, whichServer) ==
    LET rc == IF isLocalAddress(whichServer) /\ isServicePublic(whichServer)
              THEN <<RouterCall("registerService", whichServer)>>
              ELSE <<>>
        r == ServerList_registerServer(d, whichServer)
    IN Done(r.dir,
            IF r.out = <<>> THEN <<>>
            ELSE _sendClientConnectedEvent(Head(r.out), whichServer),
            rc)

\* The loop runs over the clients listed under the stub's key instead of the
\* clients that the directory returned.
_registerServer_NotifyListed(d, whichServer) ==
    LET rc == IF isLocalAddress(whichServer) /\ isServicePublic(whichServer)
              THEN <<RouterCall("registerService", whichServer)>>
              ELSE <<>>
        r == ServerList_registerServer(d, whichServer)
        i == findServer(r.dir, KeyOf(whichServer))
    IN Done(r.dir, SendConnectedToAll(r.dir[i].clients, whichServer), rc)

\* A stub that is registered already greets its connected clients again.
_registerServer_GreetAgain(d, whichServer) ==
    LET rc == IF isLocalAddress(whichServer) /\ isServicePublic(whichServer)
              THEN <<RouterCall("registerService", whichServer)>>
              ELSE <<>>
        r == ServerList_registerServer(d, whichServer)
        i == findServer(r.dir, KeyOf(whichServer))
    IN Done(r.dir,
            IF r.out = <<>> /\ AddressEqual(r.server.addr, whichServer)
            THEN SendConnectedToAll(r.dir[i].clients, whichServer)
            ELSE SendConnectedToAll(r.out, whichServer),
            rc)

\* The router is told of the stub only when the directory has taken it.
_registerServer_AnnounceAccepted(d, whichServer) ==
    LET r == ServerList_registerServer(d, whichServer)
        rc == IF isLocalAddress(whichServer) /\ isServicePublic(whichServer) /\ r.dir # d
              THEN <<RouterCall("registerService", whichServer)>>
              ELSE <<>>
    IN Done(r.dir, SendConnectedToAll(r.out, whichServer), rc)

_registerServer(d, whichServer) ==
    LET rc == IF isLocalAddress(whichServer) /\ isServicePublic(whichServer)
              THEN <<RouterCall("registerService", whichServer)>>
              ELSE <<>>
        r == ServerList_registerServer(d, whichServer)
    IN Done(r.dir, SendConnectedToAll(r.out, whichServer), rc)

\* The events name the address the directory returns (empty by then), as
\* _unregisterClient does, instead of the address of the command.
_unregisterServer_ReturnedAddress(d, whichServer) ==
    LET rc == IF isLocalAddress(whichServer) /\ isServicePublic(whichServer)
              THEN <<RouterCall("unregisterService", whichServer)>>
              ELSE <<>>
        r == ServerList_unregisterServer(d, whichServer)
    IN Done(r.dir, SendDisconnectedToAll(r.out, r.server.addr), rc)

\* The directory call slipped under the condition of the router call.
_unregisterServer_OnlyAnnounced(d, whichServer) ==
    IF isLocalAddress(whichServer) /\ isServicePublic(whichServer)
    THEN LET r == ServerList_unregisterServer(d, whichServer) IN
         Done(r.dir, SendDisconnectedToAll(r.out, whichServer),
              <<RouterCall("unregisterService", whichServer)>>)
    ELSE Done(d, <<>>, <<>>)

\* The clients listed under the key of the stub are notified, whatever the
\* directory returned.
_unregisterServer_NotifyListed(d, whichServer) ==
    LET rc == IF isLocalAddress(whichServer) /\ isServicePublic(whichServer)
              THEN <<RouterCall("unregisterService", whichServer)>>
              ELSE <<>>
        r == ServerList_unregisterServer(d, whichServer)
        i == findServer(d, KeyOf(whichServer))
    IN Done(r.dir,
            IF i = 0 THEN <<>> ELSE SendDisconnectedToAll(d[i].clients, whichServer),
            rc)

\* The stub that holds the key is unregistered, whichever address asks.
_unregisterServer_ByKey(d, whichServer) ==
    LET rc == IF isLocalAddress(whichServer) /\ isServicePublic(whichServer)
              THEN <<RouterCall("unregisterService", whichServer)>>
              ELSE <<>>
        i == findServer(d, KeyOf(whichServer))
        r == ServerList_unregisterServer(d, IF i = 0 THEN whichServer ELSE d[i].server.addr)
    IN Done(r.dir, SendDisconnectedToAll(r.out, whichServer), rc)

_unregisterServer(d, whichServer) ==
    LET rc == IF isLocalAddress(whichServer) /\ isServicePublic(whichServer)
              THEN <<RouterCall("unregisterService", whichServer)>>
              ELSE <<>>
        r == ServerList_unregisterServer(d, whichServer)
    IN Done(r.dir, SendDisconnectedToAll(r.out, whichServer), rc)

\* The router is told of every local client, whatever its category.
_registerClient_AnnounceLocal(d, whichClient) ==
    LET rc == IF isLocalAddress(whichClient)
              THEN <<RouterCall("registerServiceClient", whichClient)>>
              ELSE <<>>
        r == ServerList_registerClient(d, whichClient)
    IN Done(r.dir, _sendClientConnectedEvent(r.client, r.server.addr), rc)

_registerClient(d, whichClient) ==
    LET rc == IF isLocalAddress(whichClient) /\ isServicePublic(whichClient)
              THEN <<RouterCall("registerServiceClient", whichClient)>>
              ELSE <<>>
        r == ServerList_registerClient(d, whichClient)
    IN Done(r.dir, _sendClientConnectedEvent(r.client, r.server.addr), rc)

\* The directory call slipped under the condition of the router call.
_unregisterClient_OnlyAnnounced(d, whichClient) ==
    IF isLocalAddress(whichClient) /\ isServicePublic(whichClient)
    THEN LET r == ServerList_unregisterClient(d, whichClient) IN
         Done(r.dir, _sendClientDisconnectedEvent(r.client, r.server.addr),
              <<RouterCall("unregisterServiceClient", whichClient)>>)
    ELSE Done(d, <<>>, <<>>)

_unregisterClient(d, whichClient) ==
    LET rc == IF isLocalAddress(whichClient) /\ isServicePublic(whichClient)
              THEN <<RouterCall("unregisterServiceClient", whichClient)>>
              ELSE <<>>
        r == ServerList_unregisterClient(d, whichClient)
    IN Done(r.dir, _sendClientDisconnectedEvent(r.client, r.server.addr), rc)

----------------------------------------------------------------------------
(* The remote router adapter (mConnectService), by its interface.          *)

RouterInit == [enabled |-> FALSE, configured |-> FALSE, started |-> FALSE]

enableRemoteServicing(rt, enable) == [rt EXCEPT !.enabled = enable]
configureRemoteServicing(rt, ok) == [rt EXCEPT !.configured = ok]
isRemoteServicingConfigured(rt) == rt.configured

\* The adapter takes the address; ok: it counts itself configured with it.
setRemoteServiceAddress(rt, ok) == [rt EXCEPT !.configured = @ \/ ok]
startRemoteServicing(rt) == [rt EXCEPT !.started = rt.enabled /\ rt.configured]
stopRemoteServicing(rt) == [rt EXCEPT !.started = FALSE]

----------------------------------------------------------------------------
(* ServiceManagerEventData: the commands.                                  *)

Command(cmd, addr) == [cmd |-> cmd, addr |-> addr, channel |-> addr.channel, arg |-> ""]
PlainCommand(cmd) == [cmd |-> cmd, addr |-> EmptyAddress, channel |-> NO_CHANNEL, arg |-> ""]
ArgCommand(cmd, arg) == [cmd |-> cmd, addr |-> EmptyAddress, channel |-> NO_CHANNEL, arg |-> arg]

\* The exit marker of the dispatcher (triggerExitEvent, pulseExit).
ExitEvent == PlainCommand("Exit")

----------------------------------------------------------------------------
(* ServiceManager::processEvent.                                           *)

\* A handler's result: directory, events, router calls, router state and
\* whether the handler emptied the queue and posted the exit marker.
Result(done, rt, exit) ==
    [dir |-> done.dir, ev |-> done.ev, rc |-> done.rc, router |-> rt, exit |-> exit]

\* CMD_StopRoutingClient: a disconnect for every client of every entry.
RECURSIVE DisconnectAllEntries(_)
DisconnectAllEntries(d) ==
    IF d = <<>> THEN <<>>
    ELSE SendDisconnectedToAll(Head(d).clients, Head(d).server.addr)
            \o DisconnectAllEntries(Tail(d))

\* CMD_RegisterConnection: the announcements, entry by entry.
RECURSIVE AnnounceClients(_)
AnnounceClients(listClients) ==
    IF listClients = <<>> THEN <<>>
    ELSE LET proxy == Head(listClients).addr IN
         (IF isServicePublic(proxy) /\ isLocalAddress(proxy) /\ isValid(proxy)
          THEN <<RouterCall("registerServiceClient", proxy)>>
          ELSE <<>>)
         \o AnnounceClients(Tail(listClients))

\* Only the stubs are announced; the loop over the client lists is missing.
RECURSIVE AnnounceEntries_StubsOnly(_)
AnnounceEntries_StubsOnly(d) ==
    IF d = <<>> THEN <<>>
    ELSE LET server == Head(d).server.addr IN
         (IF isServicePublic(server) /\ isLocalAddress(server) /\ isValid(server)
          THEN <<RouterCall("registerService", server)>>
          ELSE <<>>)
         \o AnnounceEntries_StubsOnly(Tail(d))

RECURSIVE AnnounceEntries(_)
AnnounceEntries(d) ==
    IF d = <<>> THEN <<>>
    ELSE LET server == Head(d).server.addr IN
         (IF isServicePublic(server) /\ isLocalAddress(server) /\ isValid(server)
          THEN <<RouterCall("registerService", server)>>
          ELSE <<>>)
         \o AnnounceClients(Head(d).clients)
         \o AnnounceEntries(Tail(d))

\* The test for a remote address is missing: every public stub is collected.
RECURSIVE RemoteStubList_AllPublic(_)
RemoteStubList_AllPublic(d) ==
    IF d = <<>> THEN <<>>
    ELSE LET server == Head(d).server.addr IN
         (IF isServicePublic(server) /\ isValid(server)
          THEN <<server>>
          ELSE <<>>)
         \o RemoteStubList_AllPublic(Tail(d))

\* CMD_UnregisterConnection / CMD_LostConnection: stubList and proxyList.
RECURSIVE RemoteStubList(_)
RemoteStubList(d) ==
    IF d = <<>> THEN <<>>
    ELSE LET server == Head(d).server.addr IN
         (IF isServicePublic(server) /\ isRemoteAddress(server) /\ isValid(server)
          THEN <<server>>
          ELSE <<>>)
         \o RemoteStubList(Tail(d))

RemoteClients(listClients) ==
    LET sel == SelectSeq(listClients, LAMBDA c :
                    isServicePublic(c.addr) /\ isRemoteAddress(c.addr) /\ isValid(c.addr))
    IN [k \in 1..Len(sel) |-> sel[k].addr]

RECURSIVE RemoteProxyList(_)
RemoteProxyList(d) ==
    IF d = <<>> THEN <<>>
    ELSE RemoteClients(Head(d).clients) \o RemoteProxyList(Tail(d))

RECURSIVE UnregisterServers(_, _)
UnregisterServers(done, stubList) ==
    IF stubList = <<>> THEN done
    ELSE LET r == _unregisterServer(done.dir, Head(stubList)) IN
         UnregisterServers(Done(r.dir, done.ev \o r.ev, done.rc \o r.rc), Tail(stubList))

RECURSIVE UnregisterClients(_, _)
UnregisterClients(done, proxyList) ==
    IF proxyList = <<>> THEN done
    ELSE LET r == _unregisterClient(done.dir, Head(proxyList)) IN
         UnregisterClients(Done(r.dir, done.ev \o r.ev, done.rc \o r.rc), Tail(proxyList))

\* Only the remote stubs are unregistered; the loop over proxyList is missing.
LostConnection_StubsOnly(d) ==
    UnregisterServers(Done(d, <<>>, <<>>), RemoteStubList(d))

LostConnection(d) ==
    LET stubList == RemoteStubList(d)
        proxyList == RemoteProxyList(d)
    IN UnregisterClients(UnregisterServers(Done(d, <<>>, <<>>), stubList), proxyList)

\* CMD_ConfigureConnection.  cfgOk: what configureRemoteServicing returns.
CMD_ConfigureConnection(d, rt, configFile, cfgOk) ==
    LET en == enableRemoteServicing(rt, TRUE) IN
    IF configFile # ""
    THEN Result(Done(d, <<>>, <<RouterCall("configureRemoteServicing", EmptyAddress)>>),
                configureRemoteServicing(en, cfgOk), FALSE)
    ELSE IF ~isRemoteServicingConfigured(en)
    THEN Result(Done(d, <<>>, <<RouterCall("configureRemoteServicing", EmptyAddress)>>),
                configureRemoteServicing(en, cfgOk), FALSE)
    ELSE Result(Done(d, <<>>, <<>>), en, FALSE)

\* The router is configured only from a given file: without a file the
\* configuration is never retried and the router counts as configured.
CMD_StartConnection_NoRetry(d, rt, configFile, cfgOk) ==
    LET en == enableRemoteServicing(rt, TRUE)
        configures == configFile # ""
        isConfigured == IF configures THEN cfgOk ELSE TRUE
        cfg == IF configures THEN configureRemoteServicing(en, cfgOk) ELSE en
    IN Result(Done(d, <<>>,
                   (IF configures
                    THEN <<RouterCall("configureRemoteServicing", EmptyAddress)>>
                    ELSE <<>>)
                   \o (IF isConfigured
                       THEN <<RouterCall("startRemoteServicing", EmptyAddress)>>
                       ELSE <<>>)),
              IF isConfigured THEN startRemoteServicing(cfg) ELSE cfg, FALSE)

\* CMD_StartConnection.  cfgOk: what configureRemoteServicing returns.
CMD_StartConnection(d, rt, configFile, cfgOk) ==
    LET en == enableRemoteServicing(rt, TRUE)
        configures == configFile # "" \/ ~isRemoteServicingConfigured(en)
        isConfigured == IF configures THEN cfgOk ELSE TRUE
        cfg == IF configures THEN configureRemoteServicing(en, cfgOk) ELSE en
    IN Result(Done(d, <<>>,
                   (IF configures
                    THEN <<RouterCall("configureRemoteServicing", EmptyAddress)>>
                    ELSE <<>>)
                   \o (IF isConfigured
                       THEN <<RouterCall("startRemoteServicing", EmptyAddress)>>
                       ELSE <<>>)),
              IF isConfigured THEN startRemoteServicing(cfg) ELSE cfg, FALSE)

\* The router is started without asking whether it is configured.
CMD_StartNetConnection_NoCheck(d, rt, addrOk) ==
    LET en == setRemoteServiceAddress(enableRemoteServicing(rt, TRUE), addrOk) IN
    Result(Done(d, <<>>, <<RouterCall("setRemoteServiceAddress", EmptyAddress),
                           RouterCall("startRemoteServicing", EmptyAddress)>>),
           startRemoteServicing(en), FALSE)

\* CMD_StartNetConnection.  addrOk: the adapter is configured by the address.
CMD_StartNetConnection(d, rt, addrOk) ==
    LET en == setRemoteServiceAddress(enableRemoteServicing(rt, TRUE), addrOk) IN
    IF isRemoteServicingConfigured(en)
    THEN Result(Done(d, <<>>, <<RouterCall("setRemoteServiceAddress", EmptyAddress),
                                RouterCall("startRemoteServicing", EmptyAddress)>>),
                startRemoteServicing(en), FALSE)
    ELSE Result(Done(d, <<>>, <<RouterCall("setRemoteServiceAddress", EmptyAddress)>>),
                en, FALSE)

\* cfgOk: what the router adapter answers to the command that asks it.
processEvent(d, rt, data, cfgOk) ==
    CASE data.cmd = "ShutdownService" ->
            Result(Done(<<>>, <<>>, <<RouterCall("stopRemoteServicing", EmptyAddress)>>),
                   stopRemoteServicing(rt), TRUE)
      [] data.cmd = "StopRoutingClient" ->
            Result(Done(<<>>, DisconnectAllEntries(d),
                        <<RouterCall("stopRemoteServicing", EmptyAddress)>>),
                   stopRemoteServicing(rt), TRUE)
      [] data.cmd = "RegisterProxy" ->
            Result(_registerClient(d, setChannel(data.addr, data.channel)), rt, FALSE)
      [] data.cmd = "UnregisterProxy" ->
            Result(_unregisterClient(d, setChannel(data.addr, data.channel)), rt, FALSE)
      [] data.cmd = "RegisterStub" ->
            Result(_registerServer(d, setChannel(data.addr, data.channel)), rt, FALSE)
      [] data.cmd = "UnregisterStub" ->
            Result(_unregisterServer(d, setChannel(data.addr, data.channel)), rt, FALSE)
      [] data.cmd = "ConfigureConnection" ->
            CMD_ConfigureConnection(d, rt, data.arg, cfgOk)
      [] data.cmd = "StartConnection" ->
            CMD_StartConnection(d, rt, data.arg, cfgOk)
      [] data.cmd = "StartNetConnection" ->
            CMD_StartNetConnection(d, rt, cfgOk)
      [] data.cmd = "StopConnection" ->
            Result(Done(d, <<>>, <<RouterCall("stopRemoteServicing", EmptyAddress)>>),
                   stopRemoteServicing(rt), FALSE)
      [] data.cmd = "SetEnableService" ->
            Result(Done(d, <<>>, <<>>), enableRemoteServicing(rt, data.arg = "true"), FALSE)
      [] data.cmd = "RegisterConnection" ->
            Result(Done(d, <<>>, AnnounceEntries(d)), rt, FALSE)
      [] data.cmd \in {"UnregisterConnection", "LostConnection"} ->
            Result(LostConnection(d), rt, FALSE)

----------------------------------------------------------------------------
(* The addresses of the model: one interface, two roles, this process and  *)
(* one remote process.                                                     *)

StubLocal == Address("I", "R1", "public", COOKIE_LOCAL, "thread-1", "channel-local")
StubRemote == Address("I", "R1", "public", COOKIE_REMOTE, "thread-1", "channel-remote")
StubPrivate == Address("I", "R2", "local", COOKIE_LOCAL, "thread-1", "channel-local")

ProxyLocal == Address("I", "R1", "public", COOKIE_LOCAL, "thread-2", "channel-local")
ProxyRemote == Address("I", "R1", "public", COOKIE_REMOTE, "thread-2", "channel-remote")
ProxyPrivate == Address("I", "R2", "local", COOKIE_LOCAL, "thread-2", "channel-local")
ProxyFar == Address("I", "R2", "public", COOKIE_REMOTE, "thread-2", "channel-remote")

\* Addresses that fail the validity check: no role name, no interface name.
StubNoRole == Address("I", "", "public", COOKIE_LOCAL, "thread-1", "channel-local")
ProxyNoInterface == Address("", "R1", "public", COOKIE_LOCAL, "thread-2", "channel-local")

\* Addresses of this process whose owner thread is not resolved.
StubUnresolved ==
    Address("I", "R1", "public", COOKIE_LOCAL, SOURCE_UNKNOWN, "channel-local")
ProxyUnresolved ==
    Address("I", "R1", "local", COOKIE_LOCAL, SOURCE_UNKNOWN, "channel-local")

Stubs == {StubLocal, StubRemote, StubPrivate}
Proxies == {ProxyLocal, ProxyRemote, ProxyPrivate, ProxyFar}

\* Every address that can register, in a fixed order, and the position of one.
Registrants ==
    <<StubLocal, StubRemote, StubPrivate, ProxyLocal, ProxyRemote, ProxyPrivate, ProxyFar,
      StubNoRole, ProxyNoInterface, StubUnresolved, ProxyUnresolved>>
IndexOf(a) == CHOOSE k \in 1..Len(Registrants) : Registrants[k] = a
Live(a) == live[IndexOf(a)]

----------------------------------------------------------------------------
(* The state machine.                                                      *)

NoCommand == PlainCommand("None")

\* Events by runtime class: the ServiceManagerEvent that carries a command,
\* and an event of another class.
ServiceManagerEvent(data) == [class |-> "ServiceManagerEvent", data |-> data]
ComponentEvent == [class |-> "ComponentEvent", data |-> PlainCommand("NotACommand")]

\* EventDispatcher::postEvent: queues the event when the dispatcher runs.
EventDispatcher_postEvent(q, th, eventElem) ==
    IF th = "running"
    THEN [queue |-> Append(q, eventElem.data), result |-> TRUE, destroyed |-> FALSE]
    ELSE [queue |-> q, result |-> FALSE, destroyed |-> TRUE]

\* The runtime cast is missing: every event goes to the dispatcher.
postEvent_NoTypeCheck(q, th, eventElem) ==
    EventDispatcher_postEvent(q, th, eventElem)

\* ServiceManager::postEvent.
postEvent(q, th, eventElem) ==
    IF eventElem.class = "ServiceManagerEvent"
    THEN EventDispatcher_postEvent(q, th, eventElem)
    ELSE [queue |-> q, result |-> FALSE, destroyed |-> TRUE]

\* What is recorded of a call of postEvent.
Posting(eventElem, r) ==
    [class |-> eventElem.class, result |-> r.result, destroyed |-> r.destroyed]
NoPosting == [class |-> "none", result |-> FALSE, destroyed |-> FALSE]

\* The addresses a getServiceList call with the cookie reads from an entry.
EntryAddresses(entry, cookie) ==
    {a \in {entry.server.addr} \cup {entry.clients[k].addr : k \in 1..Len(entry.clients)} :
        isValid(a) /\ (cookie = COOKIE_ANY \/ a.cookie = cookie)}

DirAddresses(d, cookie) == UNION {EntryAddresses(d[i], cookie) : i \in 1..Len(d)}

ReaderIdle == [pc |-> "idle", cookie |-> COOKIE_ANY, pos |-> 0, out |-> {}, present |-> {}]

\* History of a running getServiceList call: the addresses that the
\* directory has held at some moment since the call began.
ReaderAfter(rd, d) ==
    IF rd.pc = "reading"
    THEN [rd EXCEPT !.present = @ \cup DirAddresses(d, rd.cookie)]
    ELSE rd

----------------------------------------------------------------------------
(* NERegistry: the entries of a model, their validity and equality, and    *)
(* the list template TEListBase on which every registry list is built.     *)
(* Indexes are those of the C++ code: the first element has index 0.       *)

\* NECommon::INVALID_INDEX.
INVALID_INDEX == -1

\* NEMemory::InvalidElement, the component data of a new ComponentEntry.
InvalidElement == 0

\* Version::isValid: the version 0.0.0 is not a version.
Version_isValid(version) == version > 0

\* NERegistry::ServiceEntry(serviceName, version).
ServiceEntry(serviceName, version) == [mName |-> serviceName, mVersion |-> version]

ServiceEntry_isValid(e) == (e.mName # "") /\ Version_isValid(e.mVersion)

\* ServiceEntry::operator==: the name and the version.
ServiceEntry_Equal(a, b) == (a.mName = b.mName) /\ (a.mVersion = b.mVersion)

\* NERegistry::ComponentEntry(masterThreadName, roleName, ...): no service yet.
ComponentEntry(masterThreadName, roleName) ==
    [mRoleName |-> roleName, mThreadName |-> masterThreadName,
     mSupportedServices |-> <<>>, mComponentData |-> InvalidElement]

ComponentEntry_isValid(e) == e.mRoleName # ""

\* ComponentEntry::operator==: the role name and the thread name.
ComponentEntry_Equal(a, b) ==
    (a.mRoleName = b.mRoleName) /\ (a.mThreadName = b.mThreadName)

\* NERegistry::ComponentThreadEntry(threadName) and (threadName, supCompList).
ComponentThreadEntry(threadName, supCompList) ==
    [mThreadName |-> threadName, mComponents |-> supCompList]

\* ComponentThreadEntry::isValid: a name and a component list that is not empty.
ComponentThreadEntry_isValid(e) == (e.mThreadName # "") /\ (Len(e.mComponents) > 0)

\* ComponentThreadEntry::operator==: the thread name alone.
ComponentThreadEntry_Equal(a, b) == a.mThreadName = b.mThreadName

\* The class of an entry, by which the template picks isValid, operator==
\* and getName.
IsServiceEntry(e) == "mVersion" \in DOMAIN e
IsComponentEntry(e) == "mRoleName" \in DOMAIN e

Entry_isValid(e) ==
    IF IsServiceEntry(e) THEN ServiceEntry_isValid(e)
    ELSE IF IsComponentEntry(e) THEN ComponentEntry_isValid(e)
    ELSE ComponentThreadEntry_isValid(e)

Entry_Equal(a, b) ==
    IF IsServiceEntry(a) THEN ServiceEntry_Equal(a, b)
    ELSE IF IsComponentEntry(a) THEN ComponentEntry_Equal(a, b)
    ELSE ComponentThreadEntry_Equal(a, b)

Entry_getName(e) ==
    IF IsServiceEntry(e) THEN e.mName
    ELSE IF IsComponentEntry(e) THEN e.mRoleName
    ELSE e.mThreadName

\* The loop of findEntry and addEntry: the number of elements passed before
\* the first one that matches, the size of the list when none does.
FirstIndex(mList, hits) ==
    IF hits = {} THEN Len(mList)
    ELSE (CHOOSE i \in hits : \A j \in hits : i <= j) - 1

\* The positions of the elements with the name, and of those equal to the
\* entry.
Named(mList, elemName) == {i \in 1..Len(mList) : Entry_getName(mList[i]) = elemName}
EqualTo(mList, entry) == {i \in 1..Len(mList) : Entry_Equal(mList[i], entry)}

\* TEListBase::findEntry(elemName).
findEntryByName(mList, elemName) ==
    LET i == FirstIndex(mList, Named(mList, elemName))
    IN  IF i < Len(mList) THEN i ELSE INVALID_INDEX

\* TEListBase::findEntry(elem).
findEntry(mList, elem) ==
    LET i == FirstIndex(mList, EqualTo(mList, elem))
    IN  IF i < Len(mList) THEN i ELSE INVALID_INDEX

\* A variant of addEntry that leaves an equal entry as it is.
addEntry_KeepOld(mList, entry, unique) ==
    IF ~Entry_isValid(entry)
    THEN [mList |-> mList, result |-> INVALID_INDEX]
    ELSE LET result == IF unique
                       THEN FirstIndex(mList, EqualTo(mList, entry))
                       ELSE Len(mList)
         IN  [mList |-> IF result = Len(mList) THEN Append(mList, entry) ELSE mList,
              result |-> result]

\* TEListBase::addEntry(entry, unique): [mList, result].
addEntry(mList, entry, unique) ==
    IF ~Entry_isValid(entry)
    THEN [mList |-> mList, result |-> INVALID_INDEX]
    ELSE LET result == IF unique
                       THEN FirstIndex(mList, EqualTo(mList, entry))
                       ELSE Len(mList)
         IN  [mList |-> IF result = Len(mList)
                        THEN Append(mList, entry)
                        ELSE IF unique
                             THEN [mList EXCEPT ![result + 1] = entry]
                             ELSE mList,
              result |-> result]

\* TEListBase::placeEntry(entry, unique): as addEntry, the entry is moved.
placeEntry(mList, entry, unique) ==
    IF ~Entry_isValid(entry)
    THEN [mList |-> mList, result |-> INVALID_INDEX]
    ELSE LET result == IF unique
                       THEN FirstIndex(mList, EqualTo(mList, entry))
                       ELSE Len(mList)
         IN  [mList |-> IF result = Len(mList)
                        THEN Append(mList, entry)
                        ELSE IF unique
                             THEN [mList EXCEPT ![result + 1] = entry]
                             ELSE mList,
              result |-> result]

\* std::vector::erase of the element with the index.
EraseAt(mList, index) ==
    [k \in 1..(Len(mList) - 1) |-> IF k <= index THEN mList[k] ELSE mList[k + 1]]

\* TEListBase::removeEntry(entryName): [mList, result].
removeEntryByName(mList, entryName) ==
    LET index == findEntryByName(mList, entryName)
    IN  IF index = INVALID_INDEX
        THEN [mList |-> mList, result |-> FALSE]
        ELSE [mList |-> EraseAt(mList, index), result |-> TRUE]

\* TEListBase::operator[](index): outside the bounds std::vector::operator[]
\* is undefined, and the caller gets a reference to whatever lies there.
InBounds(mList, index) == (index >= 0) /\ (index < Len(mList))

\* ServiceList::addService(entry) and ServiceList::addService(name, version).
ServiceList_addService(mList, entry) == addEntry(mList, entry, TRUE)

ServiceList_addServiceByName(mList, serviceName, version) ==
    placeEntry(mList, ServiceEntry(serviceName, version), TRUE)

\* ComponentEntry::addSupportedService(entry).
ComponentEntry_addSupportedService(comp, entry) ==
    [comp EXCEPT !.mSupportedServices = ServiceList_addService(@, entry).mList]

\* ComponentEntry::addSupportedService(serviceList): entry after entry.
RECURSIVE ComponentEntry_addSupportedServiceList(_, _)
ComponentEntry_addSupportedServiceList(comp, serviceList) ==
    IF serviceList = <<>> THEN comp
    ELSE ComponentEntry_addSupportedServiceList(
             ComponentEntry_addSupportedService(comp, Head(serviceList)),
             Tail(serviceList))

\* ComponentEntry::addSupportedService(serviceName, version): [comp, index].
ComponentEntry_addSupportedServiceByName(comp, serviceName, version) ==
    LET r == ServiceList_addServiceByName(comp.mSupportedServices, serviceName, version)
    IN  [comp |-> [comp EXCEPT !.mSupportedServices = r.mList], index |-> r.result]

\* ComponentList::addComponent(entry).
ComponentList_addComponent(mList, entry) == addEntry(mList, entry, TRUE)

\* ComponentList::setComponentData(roleName, compData): [mList, result].
ComponentList_setComponentData(mList, roleName, compData) ==
    LET index == findEntryByName(mList, roleName)
    IN  IF index # INVALID_INDEX
        THEN [mList |-> [mList EXCEPT ![index + 1].mComponentData = compData],
              result |-> TRUE]
        ELSE [mList |-> mList, result |-> FALSE]

\* ComponentThreadEntry::addComponent(entry).
ComponentThreadEntry_addComponent(th, entry) ==
    [th EXCEPT !.mComponents = ComponentList_addComponent(@, entry).mList]

\* ComponentThreadEntry::addComponent(roleName, funcCreate, funcDelete):
\* [thread, index].
ComponentThreadEntry_addComponentByName(th, roleName) ==
    LET r == ComponentList_addComponent(th.mComponents,
                                        ComponentEntry(th.mThreadName, roleName))
    IN  [thread |-> [th EXCEPT !.mComponents = r.mList], index |-> r.result]

\* ComponentThreadList::addThread(entry).
ComponentThreadList_addThread(mList, entry) == addEntry(mList, entry, TRUE)

\* Model::addThread(entry).
Model_addThread(m, entry) ==
    [m EXCEPT !.mModelThreads = ComponentThreadList_addThread(@, entry).mList]

\* Model::addThread(threadList): entry after entry.
RECURSIVE Model_addThreadList(_, _)
Model_addThreadList(m, threadList) ==
    IF threadList = <<>> THEN m
    ELSE Model_addThreadList(Model_addThread(m, Head(threadList)), Tail(threadList))

\* Model::addThread(threadName): [model, index], the index given to
\* operator[] of the thread list.
Model_addThreadByName(m, threadName) ==
    LET r == ComponentThreadList_addThread(m.mModelThreads,
                                           ComponentThreadEntry(threadName, <<>>))
    IN  [model |-> [m EXCEPT !.mModelThreads = r.mList], index |-> r.result]

\* Model::removeThread(threadName).
Model_removeThread(m, threadName) ==
    [m EXCEPT !.mModelThreads = removeEntryByName(@, threadName).mList]

\* Model::setComponentData(roleName, compData): the first thread that has
\* a component of the role.
RECURSIVE SetDataFrom(_, _, _, _)
SetDataFrom(threads, i, roleName, compData) ==
    IF i > Len(threads) THEN threads
    ELSE LET r == ComponentList_setComponentData(threads[i].mComponents,
                                                 roleName, compData)
         IN  IF r.result
             THEN [threads EXCEPT ![i].mComponents = r.mList]
             ELSE SetDataFrom(threads, i + 1, roleName, compData)

Model_setComponentData(m, roleName, compData) ==
    [m EXCEPT !.mModelThreads = SetDataFrom(@, 1, roleName, compData)]

\* Model::markModelLoaded(isLoaded).
Model_markModelLoaded(m, isLoaded) == [m EXCEPT !.mIsLoaded = isLoaded]

\* Model::Model(): no thread, not loaded.
NewModel == [mModelThreads |-> <<>>, mIsLoaded |-> FALSE]

\* What the last call of the registry was and what it returned.
NoCall ==
    [op |-> "none", arg |-> "", unique |-> FALSE, before |-> <<>>,
     result |-> INVALID_INDEX, ref |-> ""]

Call(op, arg, unique, before, result, ref) ==
    [op |-> op, arg |-> arg, unique |-> unique, before |-> before,
     result |-> result, ref |-> ref]

----------------------------------------------------------------------------
(* TESortedLinkedList: the blocks of the list are modelled by the sequence *)
(* of their values from mHead to mTail; a position is the place of a block *)
(* in that sequence and INVALID_POSITION (nullptr) is no place.            *)

INVALID_POSITION == 0

SortAscending == "SortAscending"
SortDescending == "SortDescending"

\* TESortImpl::implCompareValues.
compareValues(value1, value2) ==
    IF value1 < value2 THEN "Smaller"
    ELSE IF value1 = value2 THEN "Equal"
    ELSE "Bigger"

\* TESortedLinkedList(sortAscending): an empty list.
NewSortedList(sortAscending) ==
    [mSorting |-> IF sortAscending THEN SortAscending ELSE SortDescending,
     mValues |-> <<>>, fault |-> FALSE]

\* The values with a new block linked in front of the block at the place.
LinkBefore(values, newValue, place) ==
    [k \in 1..(Len(values) + 1) |->
        IF k < place THEN values[k]
        ELSE IF k = place THEN newValue
        ELSE values[k - 1]]

\* _insertElementBefore(newBlock, beforePosition): [mValues, nullUsed];
\* nullUsed when the last branch reads block->mPrev of a null block.
_insertElementBefore(values, newValue, beforePosition) ==
    IF Len(values) = 0
    THEN [mValues |-> <<newValue>>, nullUsed |-> FALSE]
    ELSE IF Len(values) = 1
    THEN [mValues |-> <<newValue>> \o values, nullUsed |-> FALSE]
    ELSE IF beforePosition = 1
    THEN [mValues |-> <<newValue>> \o values, nullUsed |-> FALSE]
    ELSE IF beforePosition = INVALID_POSITION
    THEN [mValues |-> values, nullUsed |-> TRUE]
    ELSE [mValues |-> LinkBefore(values, newValue, beforePosition), nullUsed |-> FALSE]

\* _insertElementAfter(newBlock, afterPosition): [mValues, nullUsed].
_insertElementAfter(values, newValue, afterPosition) ==
    IF Len(values) = 0
    THEN [mValues |-> <<newValue>>, nullUsed |-> FALSE]
    ELSE IF Len(values) = 1
    THEN [mValues |-> values \o <<newValue>>, nullUsed |-> FALSE]
    ELSE IF afterPosition = Len(values)
    THEN [mValues |-> values \o <<newValue>>, nullUsed |-> FALSE]
    ELSE IF afterPosition = INVALID_POSITION
    THEN [mValues |-> values, nullUsed |-> TRUE]
    ELSE [mValues |-> LinkBefore(values, newValue, afterPosition + 1), nullUsed |-> FALSE]

\* The loop of _add for an ascending list: from mHead, past every block
\* for which the new element compares Smaller.
RECURSIVE WalkFromHead(_, _, _)
WalkFromHead(values, newElement, pos) ==
    IF pos > Len(values) THEN INVALID_POSITION
    ELSE IF compareValues(newElement, values[pos]) = "Smaller"
    THEN WalkFromHead(values, newElement, pos + 1)
    ELSE pos

\* The loop of _add for a descending list: from mTail, past every block
\* for which the new element compares Bigger.
RECURSIVE WalkFromTail(_, _, _)
WalkFromTail(values, newElement, pos) ==
    IF pos < 1 THEN INVALID_POSITION
    ELSE IF compareValues(newElement, values[pos]) = "Bigger"
    THEN WalkFromTail(values, newElement, pos - 1)
    ELSE pos

\* _add(newBlock): [mValues, nullUsed].  result is nullptr when the side
\* of the insertion is chosen.
_add(s, newElement) ==
    LET result == INVALID_POSITION
        before == IF s.mSorting = SortAscending
                  THEN WalkFromHead(s.mValues, newElement, 1)
                  ELSE IF Len(s.mValues) = 0 THEN INVALID_POSITION ELSE 1
        after  == IF s.mSorting = SortAscending
                  THEN Len(s.mValues)
                  ELSE WalkFromTail(s.mValues, newElement, Len(s.mValues))
    IN  IF result # INVALID_POSITION
        THEN _insertElementAfter(s.mValues, newElement, after)
        ELSE _insertElementBefore(s.mValues, newElement, before)

\* nextEntry(in_out_NextPosition, out_NextValue): [pos, out, result].
nextEntry(values, in_out_NextPosition, out_NextValue) ==
    LET next == IF in_out_NextPosition < Len(values)
                THEN in_out_NextPosition + 1 ELSE INVALID_POSITION
    IN  [pos |-> next,
         out |-> IF next # INVALID_POSITION THEN values[next] ELSE out_NextValue,
         result |-> next # INVALID_POSITION]

\* prevEntry(in_out_PrevPosition, out_PrevValue): [pos, out, result].  The
\* value copied is block->mValue, of the block at the position given.
prevEntry(values, in_out_PrevPosition, out_PrevValue) ==
    LET prev == IF in_out_PrevPosition > 1
                THEN in_out_PrevPosition - 1 ELSE INVALID_POSITION
    IN  [pos |-> prev,
         out |-> IF prev # INVALID_POSITION
                 THEN values[in_out_PrevPosition] ELSE out_PrevValue,
         result |-> prev # INVALID_POSITION]

\* What the last call of the list was and what it returned.
NoWalk ==
    [op |-> "none", at |-> INVALID_POSITION, given |-> 0, pos |-> INVALID_POSITION,
     out |-> 0, result |-> FALSE, size |-> 0, nullUsed |-> FALSE]

----------------------------------------------------------------------------
(* Property: a key, a value and a comment, written to and read from a line *)
(* of configuration text.  A text is a sequence of characters.             *)

\* NEPersistence: the syntax of the configuration text.
SYNTAX_COMMENT == <<"#", " ">>
SYNTAX_EQUAL == <<"=">>
SYNTAX_LINEEND == <<"\n">>
SYNTAX_WHITESPACE_DELIMITER == <<" ">>

\* Property::convToString puts a comment of this length on a line of its own.
LONG_COMMENT == 64

\* NEString::INVALID_POS; the first character of a text has the position 1.
INVALID_POS == 0

\* String::findFirst(phrase): the position of the first occurrence.
findFirst(text, phrase) ==
    LET found == {i \in 1..(Len(text) - Len(phrase) + 1) :
                     SubSeq(text, i, i + Len(phrase) - 1) = phrase}
    IN  IF found = {} THEN INVALID_POS
        ELSE CHOOSE i \in found : \A j \in found : i <= j

\* String::getSubstring(text, phrase, &next): the text before the phrase
\* and the text after it; the whole text and nothing when it is not there.
getSubstring(text, phrase) ==
    LET pos == findFirst(text, phrase)
    IN  IF pos = INVALID_POS
        THEN [head |-> text, next |-> <<>>]
        ELSE [head |-> SubSeq(text, 1, pos - 1),
              next |-> SubSeq(text, pos + Len(phrase), Len(text))]

IsSpace(ch) == ch \in {" ", "\n", "\t", "\r"}

\* String::trimAll: the text without the white space around it.
RECURSIVE TrimLeft(_)
TrimLeft(text) ==
    IF text # <<>> /\ IsSpace(Head(text)) THEN TrimLeft(Tail(text)) ELSE text

RECURSIVE TrimRight(_)
TrimRight(text) ==
    IF text # <<>> /\ IsSpace(text[Len(text)])
    THEN TrimRight(SubSeq(text, 1, Len(text) - 1))
    ELSE text

trimAll(text) == TrimRight(TrimLeft(text))

\* PropertyKey::parseKey and PropertyValue::parseValue: the stripped text.
parseKey(text) == trimAll(text)
parseValue(text) == trimAll(text)

\* PropertyKey::isValid: the key has a text.
PropertyKey_isValid(key) == key # <<>>

\* Property(keySet, valueSet, comment).
NewProperty(keySet, valueSet, comment) ==
    [mComment |-> comment, key |-> parseKey(keySet), value |-> parseValue(valueSet)]

\* Property::addComment(comment).
addComment(p, comment) ==
    LET lined == IF p.mComment # <<>> THEN p.mComment \o SYNTAX_LINEEND ELSE p.mComment
        marked == IF comment # <<>> /\ comment # SYNTAX_COMMENT
                  THEN lined \o SYNTAX_COMMENT ELSE lined
    IN  [p EXCEPT !.mComment = marked \o comment]

\* Property::parseProperty(strProperties): the property after the call.
parseProperty(p, strProperties) ==
    IF strProperties # <<>>
    THEN LET pos == findFirst(strProperties, SYNTAX_COMMENT)
             commented == IF pos # INVALID_POS
                          THEN addComment(p, SubSeq(strProperties, pos, Len(strProperties)))
                          ELSE p
             values == IF pos # INVALID_POS
                       THEN SubSeq(strProperties, 1, pos - 1)
                       ELSE strProperties
             pair == getSubstring(values, SYNTAX_EQUAL)
             parsed == IF values # <<>>
                       THEN [commented EXCEPT !.key = parseKey(pair.head),
                                              !.value = parseValue(pair.next)]
                       ELSE commented
         IN  IF ~PropertyKey_isValid(parsed.key)
             THEN [parsed EXCEPT !.key = <<>>, !.value = <<>>]
             ELSE parsed
    ELSE addComment(p, <<>>)

\* Property::convToString.
convToString(p) ==
    LET key == IF p.key # <<>> /\ p.value # <<>>
               THEN p.key \o SYNTAX_WHITESPACE_DELIMITER \o SYNTAX_EQUAL
                          \o SYNTAX_WHITESPACE_DELIMITER \o p.value
               ELSE p.key
    IN  IF p.mComment # <<>>
        THEN IF findFirst(p.mComment, SYNTAX_LINEEND) # INVALID_POS
                \/ Len(p.mComment) >= LONG_COMMENT
             THEN p.mComment \o SYNTAX_LINEEND \o key
             ELSE <<>>
        ELSE IF p.mComment # <<>>
        THEN key \o SYNTAX_WHITESPACE_DELIMITER \o p.mComment
        ELSE key

\* Property(): no key, no value, no comment.
EmptyProperty == [mComment |-> <<>>, key |-> <<>>, value |-> <<>>]

\* A property before it is written: nothing written, nothing read.
Unwritten(p) == [stage |-> "made", prop |-> p, text |-> <<>>, parsed |-> EmptyProperty]

----------------------------------------------------------------------------
(* TEFixedArray: two arrays, modelled by the sequences of their elements,  *)
(* and the results of operator== and operator!=.                           *)

\* TEFixedArray::isEqualValues.
isEqualValues(value1, value2) == value1 = value2

\* The loop of operator==: result = isEqualValues(...) while result holds.
RECURSIVE EqualLoop(_, _, _, _)
EqualLoop(mValueList, other, i, result) ==
    IF result /\ i <= Len(mValueList)
    THEN EqualLoop(mValueList, other, i + 1, isEqualValues(mValueList[i], other[i]))
    ELSE result

\* TEFixedArray::operator==; sameObject when this == &other.
operatorEqual(mValueList, other, sameObject) ==
    IF sameObject THEN TRUE
    ELSE IF Len(mValueList) = Len(other)
    THEN EqualLoop(mValueList, other, 1, TRUE)
    ELSE FALSE

\* The loop of operator!=: result = (isEqualValues(...) == false) while
\* result holds.
RECURSIVE NotEqualLoop(_, _, _, _)
NotEqualLoop(mValueList, other, i, result) ==
    IF result /\ i <= Len(mValueList)
    THEN NotEqualLoop(mValueList, other, i + 1,
                      isEqualValues(mValueList[i], other[i]) = FALSE)
    ELSE result

\* TEFixedArray::operator!=; sameObject when this == &other.
operatorNotEqual(mValueList, other, sameObject) ==
    IF sameObject THEN FALSE
    ELSE IF Len(mValueList) = Len(other)
    THEN NotEqualLoop(mValueList, other, 1, TRUE)
    ELSE TRUE

\* Two arrays that have not been compared.
Uncompared(a, b, sameObject) ==
    [a |-> a, b |-> b, sameObject |-> sameObject,
     eqDone |-> FALSE, eq |-> FALSE, neDone |-> FALSE, ne |-> FALSE]

NoArrays == Uncompared(<<>>, <<>>, FALSE)

\* The Service Manager after construction.
\* The threads that call _startServiceManagerThread, and a caller outside
\* the call with nothing returned yet.
Callers == 1..MaxCallers
CallerIdle == [pc |-> "idle", ready |-> FALSE, result |-> "none", created |-> FALSE]

\* DispatcherThread::isReady: the dispatcher thread has started and runs.
isReady(th) == th = "running"

\* The thread is created whatever isReady answered.
_startServiceManagerThread_Always(ready, createOk) ==
    IF createOk
    THEN [result |-> "true", created |-> TRUE]
    ELSE [result |-> "false", created |-> FALSE]

\* _startServiceManagerThread behind the lock: what it returns and whether
\* it has created the dispatcher thread.  ready is what isReady answered,
\* createOk the outcome of createThread && waitForDispatcherStart.
_startServiceManagerThread(ready, createOk) ==
    IF ready = FALSE
    THEN IF createOk
         THEN [result |-> "true", created |-> TRUE]
         ELSE [result |-> "false", created |-> FALSE]
    ELSE [result |-> "true", created |-> FALSE]

InitServiceManager ==
    /\ thread = "idle"
    /\ starts = 0
    /\ stopper = "idle"
    /\ queue = <<>>
    /\ posted = 0
    /\ dir = <<>>
    /\ router = RouterInit
    /\ last = [cmd |-> NoCommand, ev |-> <<>>, rc |-> <<>>, dir |-> <<>>, pending |-> <<>>]
    /\ events = <<>>
    /\ live = [k \in 1..Len(Registrants) |-> "none"]
    /\ posting = NoPosting
    /\ mLock = "free"
    /\ handler = "idle"
    /\ reader = ReaderIdle
    /\ starter = [c \in Callers |-> CallerIdle]

\* The registry objects after construction: a component entry without a
\* service, an empty list, a thread entry without a component, an empty
\* model.
InitRegistry ==
    /\ component = ComponentEntry("Thread1", "Role1")
    /\ list = <<>>
    /\ compThread = ComponentThreadEntry("Thread1", <<>>)
    /\ model = NewModel
    /\ lastCall = NoCall

\* The containers and the property after construction: an empty ascending
\* list, a property without key, two empty arrays.
InitContainers ==
    /\ sorted = NewSortedList(TRUE)
    /\ walk = NoWalk
    /\ property = Unwritten(EmptyProperty)
    /\ arrays = NoArrays

Init == InitServiceManager /\ InitRegistry /\ InitContainers

\* _startServiceManagerThread: creates the thread when the manager is not ready.
StartServiceManagerThread ==
    /\ thread # "running"
    /\ starts < MaxStarts
    /\ stopper # "waiting"
    /\ mLock = "free"
    /\ thread' = "running"
    /\ starts' = starts + 1
    /\ stopper' = "idle"
    /\ queue' = <<>>
    /\ UNCHANGED <<posted, dir, router, last, events, live, posting, snapshotVars>>
    /\ UNCHANGED <<starter, libraryVars>>

\* ServiceManagerEvent::sendEvent -> ServiceManager::postEvent: the command
\* is queued when the dispatcher runs and is destroyed otherwise.
Post(data) ==
    /\ posted < MaxCmds
    /\ Len(queue) < MaxQueue
    /\ LET r == postEvent(queue, thread, ServiceManagerEvent(data)) IN
        /\ queue' = r.queue
        /\ posted' = IF r.result THEN posted + 1 ELSE posted
        /\ posting' = Posting(ServiceManagerEvent(data), r)
    /\ UNCHANGED <<thread, starts, stopper, dir, router, last, events, live, snapshotVars>>
    /\ UNCHANGED <<starter, libraryVars>>

\* Inlined handler: the caller's thread registers the stub itself.
requestRegisterServer_Inline(whichServer) ==
    /\ posted < MaxCmds
    /\ thread = "running"
    /\ dir' = _registerServer(dir, whichServer).dir
    /\ posted' = posted + 1
    /\ UNCHANGED <<thread, starts, stopper, queue, router, last, events, live,
                   posting, snapshotVars>>
    /\ UNCHANGED <<starter, libraryVars>>

requestRegisterServer(whichServer) == Post(Command("RegisterStub", whichServer))
requestUnregisterServer(whichServer) == Post(Command("UnregisterStub", whichServer))
requestRegisterClient(whichClient) == Post(Command("RegisterProxy", whichClient))
requestUnregisterClient(whichClient) == Post(Command("UnregisterProxy", whichClient))

remoteServiceStarted == Post(PlainCommand("RegisterConnection"))
remoteServiceStopped == Post(PlainCommand("UnregisterConnection"))
remoteServiceConnectionLost == Post(PlainCommand("LostConnection"))
stopMessageRouterClient == Post(PlainCommand("StopRoutingClient"))

\* _stopServiceManagerThread: posts ShutdownService, then waits for the thread.
StopServiceManagerThread ==
    /\ stopper # "waiting"
    /\ stopper' = "waiting"
    /\ LET ev == ServiceManagerEvent(PlainCommand("ShutdownService"))
           r == postEvent(queue, thread, ev)
       IN queue' = r.queue /\ posting' = Posting(ev, r)
    /\ UNCHANGED <<thread, starts, posted, dir, router, last, events, live, snapshotVars>>
    /\ UNCHANGED <<starter, libraryVars>>

\* completionWait returns once the dispatcher thread has ended.
CompletionWait ==
    /\ stopper = "waiting"
    /\ thread # "running"
    /\ stopper' = "joined"
    /\ UNCHANGED <<thread, starts, queue, posted, dir, router, last, events, live,
                   posting, snapshotVars>>
    /\ UNCHANGED <<starter, libraryVars>>

\* History of the registrations processed (not program state).  For every
\* address: "registered" once its register command is processed, "none" once
\* its unregister command is processed; a registered address that leaves the
\* directory without an unregister command becomes "lost" (a public remote
\* address at UnregisterConnection / LostConnection) or "ended" (any address
\* at ShutdownService / StopRoutingClient).
LiveAfter(lv, data) ==
    CASE data.cmd \in {"RegisterStub", "RegisterProxy"} ->
            [lv EXCEPT ![IndexOf(data.addr)] = "registered"]
      [] data.cmd \in {"UnregisterStub", "UnregisterProxy"} ->
            [lv EXCEPT ![IndexOf(data.addr)] = "none"]
      [] data.cmd \in {"UnregisterConnection", "LostConnection"} ->
            [k \in 1..Len(Registrants) |->
                IF  /\ lv[k] = "registered"
                    /\ isServicePublic(Registrants[k])
                    /\ isRemoteAddress(Registrants[k])
                THEN "lost" ELSE lv[k]]
      [] data.cmd \in {"ShutdownService", "StopRoutingClient"} ->
            [k \in 1..Len(Registrants) |->
                IF lv[k] \in {"registered", "lost"} THEN "ended" ELSE lv[k]]
      [] OTHER -> lv

\* What the router adapter can answer to the command that asks it: the
\* result of configureRemoteServicing, and whether setRemoteServiceAddress
\* leaves the adapter configured.
ConfigureOutcomes(data) ==
    IF data.cmd \in {"ConfigureConnection", "StartConnection", "StartNetConnection"}
    THEN BOOLEAN ELSE {TRUE}

\* The exit marker is queued behind the commands that wait, which are kept.
DispatchEvent_ExitBehindQueue ==
    /\ thread = "running"
    /\ queue # <<>>
    /\ Head(queue) # ExitEvent
    /\ \E cfgOk \in ConfigureOutcomes(Head(queue)) :
        LET data == Head(queue)
            r == processEvent(dir, router, data, cfgOk)
        IN /\ dir' = r.dir
           /\ router' = r.router
           /\ events' = events \o r.ev
           /\ last' = [cmd |-> data, ev |-> r.ev, rc |-> r.rc, dir |-> dir,
                       pending |-> Tail(queue)]
           /\ queue' = IF r.exit THEN Append(Tail(queue), ExitEvent) ELSE Tail(queue)
           /\ live' = LiveAfter(live, data)
           /\ reader' = ReaderAfter(reader, r.dir)
    /\ handler' = "idle"
    /\ UNCHANGED <<thread, starts, stopper, posted, posting, mLock>>
    /\ UNCHANGED <<starter, libraryVars>>

\* The dispatcher thread takes the next command and runs processEvent.
DispatchEvent ==
    /\ thread = "running"
    /\ queue # <<>>
    /\ Head(queue) # ExitEvent
    /\ \E cfgOk \in ConfigureOutcomes(Head(queue)) :
        LET data == Head(queue)
            r == processEvent(dir, router, data, cfgOk)
        IN /\ dir' = r.dir
           /\ router' = r.router
           /\ events' = events \o r.ev
           /\ last' = [cmd |-> data, ev |-> r.ev, rc |-> r.rc, dir |-> dir,
                       pending |-> Tail(queue)]
           /\ queue' = IF r.exit THEN <<ExitEvent>> ELSE Tail(queue)
           /\ live' = LiveAfter(live, data)
           /\ reader' = ReaderAfter(reader, r.dir)
    /\ handler' = "idle"
    /\ UNCHANGED <<thread, starts, stopper, posted, posting, mLock>>
    /\ UNCHANGED <<starter, libraryVars>>

\* The dispatcher thread takes the exit marker and ends.
ExitDispatcher ==
    /\ thread = "running"
    /\ queue # <<>>
    /\ Head(queue) = ExitEvent
    /\ thread' = "exited"
    /\ queue' = <<>>
    /\ UNCHANGED <<starts, stopper, posted, dir, router, last, events, live,
                   posting, snapshotVars>>
    /\ UNCHANGED <<starter, libraryVars>>

Next ==
    \/ StartServiceManagerThread
    \/ \E s \in Stubs : requestRegisterServer(s)
    \/ \E s \in Stubs : requestUnregisterServer(s)
    \/ \E p \in Proxies : requestRegisterClient(p)
    \/ \E p \in Proxies : requestUnregisterClient(p)
    \/ remoteServiceStarted
    \/ remoteServiceStopped
    \/ remoteServiceConnectionLost
    \/ stopMessageRouterClient
    \/ StopServiceManagerThread
    \/ CompletionWait
    \/ DispatchEvent
    \/ ExitDispatcher

Spec == Init /\ [][Next]_vars

----------------------------------------------------------------------------
(* The routing service API and the router commands.                        *)

CONFIG_FILE == "router.init"
ROUTER_ADDRESS == "127.0.0.1:8181"

\* The configuration file argument: a null pointer makes the empty string.
ConfigFiles == {"", CONFIG_FILE}

\* The ip address and port argument: empty when ip or port is invalid.
NetAddresses == {"", ROUTER_ADDRESS}

_routingServiceConfigure(configFile) == Post(ArgCommand("ConfigureConnection", configFile))
_routingServiceStart(configFile) == Post(ArgCommand("StartConnection", configFile))

\* _routingServiceStart(ipAddress, portNr): posts only with a valid address.
_routingServiceStartNet(netAddress) ==
    /\ netAddress # ""
    /\ Post(ArgCommand("StartNetConnection", netAddress))

_routingServiceStop == Post(PlainCommand("StopConnection"))
_routingServiceEnable(enable) ==
    Post(ArgCommand("SetEnableService", IF enable THEN "true" ELSE "false"))

\* A thread posts an event of another class to the Service Manager.
PostComponentEvent ==
    /\ LET r == postEvent(queue, thread, ComponentEvent) IN
        /\ queue' = r.queue
        /\ posting' = Posting(ComponentEvent, r)
    /\ UNCHANGED <<thread, starts, stopper, posted, dir, router, last, events, live,
                   snapshotVars>>
    /\ UNCHANGED <<starter, libraryVars>>

\* The stubs and proxies that register while the router is driven.
RoutingStubs == {StubLocal, StubPrivate}
RoutingProxies == {ProxyLocal}

NextRouting ==
    \/ StartServiceManagerThread
    \/ \E f \in ConfigFiles : _routingServiceConfigure(f)
    \/ \E f \in ConfigFiles : _routingServiceStart(f)
    \/ \E a \in NetAddresses : _routingServiceStartNet(a)
    \/ _routingServiceStop
    \/ \E enable \in BOOLEAN : _routingServiceEnable(enable)
    \/ \E s \in RoutingStubs : requestRegisterServer(s)
    \/ \E s \in RoutingStubs : requestUnregisterServer(s)
    \/ \E p \in RoutingProxies : requestRegisterClient(p)
    \/ \E p \in RoutingProxies : requestUnregisterClient(p)
    \/ remoteServiceStarted
    \/ PostComponentEvent
    \/ StopServiceManagerThread
    \/ CompletionWait
    \/ DispatchEvent
    \/ ExitDispatcher

SpecRouting == Init /\ [][NextRouting]_vars

----------------------------------------------------------------------------
(* getServiceList, step by step, next to the dispatcher thread.            *)

\* The commands whose handlers change mServerList.
DirectoryCommands == {"RegisterStub", "UnregisterStub", "RegisterProxy", "UnregisterProxy"}

\* What a read of a list node that is being unlinked or relinked can yield.
TornAddress == Address("I", "R1", "public", COOKIE_LOCAL, "freed", "channel-local")

\* The dispatcher thread enters the handler of a directory command and is
\* inside the call of mServerList; the handlers take no lock.
BeginHandler ==
    /\ thread = "running"
    /\ queue # <<>>
    /\ Head(queue).cmd \in DirectoryCommands
    /\ handler = "idle"
    /\ handler' = "mutating"
    /\ UNCHANGED <<thread, starts, stopper, queue, posted, dir, router, last, events,
                   live, posting, mLock, reader>>
    /\ UNCHANGED <<starter, libraryVars>>

\* getServiceList: takes mLock and clears the two lists.
getServiceList_Lock(cookie) ==
    /\ reader.pc = "idle"
    /\ mLock = "free"
    /\ mLock' = "reader"
    /\ reader' = [pc |-> "reading", cookie |-> cookie, pos |-> 1, out |-> {},
                  present |-> DirAddresses(dir, cookie)]
    /\ UNCHANGED <<thread, starts, stopper, queue, posted, dir, router, last, events,
                   live, posting, handler>>
    /\ UNCHANGED <<starter, libraryVars>>

\* getServiceList: one turn of the loop over the positions of mServerList.
\* A read while the dispatcher thread is inside mServerList races with it:
\* it yields the entry as it was, as it will be, or a node being relinked.
getServiceList_ReadEntry ==
    /\ reader.pc = "reading"
    /\ reader.pos <= Len(dir)
    /\ \E got \in
            IF handler = "mutating"
            THEN LET after == processEvent(dir, router, Head(queue), TRUE).dir IN
                 {EntryAddresses(dir[reader.pos], reader.cookie), {TornAddress}}
                    \cup (IF reader.pos <= Len(after)
                          THEN {EntryAddresses(after[reader.pos], reader.cookie)}
                          ELSE {{}})
            ELSE {EntryAddresses(dir[reader.pos], reader.cookie)} :
        reader' = [reader EXCEPT !.pos = @ + 1, !.out = @ \cup got]
    /\ UNCHANGED <<thread, starts, stopper, queue, posted, dir, router, last, events,
                   live, posting, mLock, handler>>
    /\ UNCHANGED <<starter, libraryVars>>

\* getServiceList: the loop is over, the call returns and releases mLock.
getServiceList_Unlock ==
    /\ reader.pc = "reading"
    /\ reader.pos > Len(dir)
    /\ mLock' = "free"
    /\ reader' = [reader EXCEPT !.pc = "idle"]
    /\ UNCHANGED <<thread, starts, stopper, queue, posted, dir, router, last, events,
                   live, posting, handler>>
    /\ UNCHANGED <<starter, libraryVars>>

SnapshotStubs == {StubLocal, StubPrivate}
SnapshotProxies == {ProxyLocal, ProxyRemote}

NextSnapshot ==
    \/ StartServiceManagerThread
    \/ \E s \in SnapshotStubs : requestRegisterServer(s)
    \/ \E s \in SnapshotStubs : requestUnregisterServer(s)
    \/ \E p \in SnapshotProxies : requestRegisterClient(p)
    \/ \E p \in SnapshotProxies : requestUnregisterClient(p)
    \/ BeginHandler
    \/ DispatchEvent
    \/ \E cookie \in {COOKIE_ANY, COOKIE_LOCAL} : getServiceList_Lock(cookie)
    \/ getServiceList_ReadEntry
    \/ getServiceList_Unlock

SpecSnapshot == Init /\ [][NextSnapshot]_vars

----------------------------------------------------------------------------
(* Requests that carry an address without a role or an interface name (a   *)
(* build without assertions: the ASSERT of the request API is no guard).   *)

InvalidStubs == {StubLocal, StubNoRole}
InvalidProxies == {ProxyLocal, ProxyNoInterface}

NextInvalid ==
    \/ StartServiceManagerThread
    \/ \E s \in InvalidStubs : requestRegisterServer(s)
    \/ \E s \in InvalidStubs : requestUnregisterServer(s)
    \/ \E p \in InvalidProxies : requestRegisterClient(p)
    \/ \E p \in InvalidProxies : requestUnregisterClient(p)
    \/ DispatchEvent

SpecInvalid == Init /\ [][NextInvalid]_vars

----------------------------------------------------------------------------
(* Requests of stubs and proxies of this process, with and without a       *)
(* resolved source (the thread that owns the address).                     *)

UnresolvedStubs == {StubLocal, StubUnresolved}
UnresolvedProxies == {ProxyLocal, ProxyUnresolved}

NextUnresolved ==
    \/ StartServiceManagerThread
    \/ \E s \in UnresolvedStubs : requestRegisterServer(s)
    \/ \E s \in UnresolvedStubs : requestUnregisterServer(s)
    \/ \E p \in UnresolvedProxies : requestRegisterClient(p)
    \/ \E p \in UnresolvedProxies : requestUnregisterClient(p)
    \/ DispatchEvent

SpecUnresolved == Init /\ [][NextUnresolved]_vars

----------------------------------------------------------------------------
(* The calls of _startServiceManagerThread, step by step, by several       *)
(* threads, beside a dispatcher that is stopped and ends.                   *)

\* Lock lock(mLock): the caller enters once the lock is free.
StartCall_Lock(c) ==
    /\ starter[c].pc = "idle"
    /\ mLock = "free"
    /\ mLock' = "starter"
    /\ starter' = [starter EXCEPT ![c] = [CallerIdle EXCEPT !.pc = "locked"]]
    /\ UNCHANGED <<thread, starts, stopper, queue, posted, dir, router, last,
                   events, live, posting, handler, reader>>
    /\ UNCHANGED libraryVars

\* The caller evaluates isReady().
StartCall_IsReady(c) ==
    /\ starter[c].pc = "locked"
    /\ starter' = [starter EXCEPT ![c].pc = "checked", ![c].ready = isReady(thread)]
    /\ UNCHANGED <<thread, starts, stopper, queue, posted, dir, router, last,
                   events, live, posting, snapshotVars>>
    /\ UNCHANGED libraryVars

\* The caller creates the thread or not, returns, and the lock is released.
StartCall_Return(c) ==
    /\ starter[c].pc = "checked"
    /\ \E createOk \in BOOLEAN :
        LET r == _startServiceManagerThread(starter[c].ready, createOk) IN
        /\ r.created => starts < MaxThreads
        /\ thread' = IF r.created THEN "running" ELSE thread
        /\ starts' = IF r.created THEN starts + 1 ELSE starts
        /\ queue' = IF r.created THEN <<>> ELSE queue
        /\ starter' = [starter EXCEPT ![c].pc = "idle", ![c].result = r.result,
                                      ![c].created = r.created]
    /\ mLock' = "free"
    /\ UNCHANGED <<stopper, posted, dir, router, last, events, live, posting,
                   handler, reader>>
    /\ UNCHANGED libraryVars

NextStart ==
    \/ \E c \in Callers : StartCall_Lock(c)
    \/ \E c \in Callers : StartCall_IsReady(c)
    \/ \E c \in Callers : StartCall_Return(c)
    \/ StopServiceManagerThread
    \/ CompletionWait
    \/ DispatchEvent
    \/ ExitDispatcher

SpecStart == Init /\ [][NextStart]_vars


----------------------------------------------------------------------------
(* NERegistry: a component entry and its supported services.               *)

ServiceNames == {"", "Service1", "Service2"}
Versions == {0, 1, 2}
ThreadNames == {"", "Thread1", "Thread2"}
RoleNames == {"", "Role1", "Role2"}

ServiceEntries == {ServiceEntry(n, v) : n \in ServiceNames, v \in Versions}

\* The service lists handed to addSupportedService(serviceList): built by
\* ServiceList::addService from up to two entries.
ServiceLists ==
    {<<>>} \cup {ServiceList_addService(<<>>, e).mList : e \in ServiceEntries}
           \cup {ServiceList_addService(ServiceList_addService(<<>>, e).mList, f).mList :
                    e \in ServiceEntries, f \in ServiceEntries}

AddSupportedService(entry) ==
    /\ component' = ComponentEntry_addSupportedService(component, entry)
    /\ lastCall' = Call("addSupportedService", entry, TRUE,
                    component.mSupportedServices, INVALID_INDEX, "")
    /\ UNCHANGED <<list, compThread, model, sorted, walk, property, arrays>>
    /\ UNCHANGED serviceManagerVars

AddSupportedServiceList(serviceList) ==
    /\ component' = ComponentEntry_addSupportedServiceList(component, serviceList)
    /\ lastCall' = Call("addSupportedServiceList", serviceList, TRUE,
                    component.mSupportedServices, INVALID_INDEX, "")
    /\ UNCHANGED <<list, compThread, model, sorted, walk, property, arrays>>
    /\ UNCHANGED serviceManagerVars

\* The reference returned is mSupportedServices[index]: the name of the
\* entry there, any name when the index is outside the list.
AddSupportedServiceByName(serviceName, version) ==
    LET r == ComponentEntry_addSupportedServiceByName(component, serviceName, version)
    IN  /\ component' = r.comp
        /\ \E garbage \in ServiceNames :
              lastCall' = Call("addSupportedServiceByName", ServiceEntry(serviceName, version),
                           TRUE, component.mSupportedServices, r.index,
                           IF InBounds(r.comp.mSupportedServices, r.index)
                           THEN r.comp.mSupportedServices[r.index + 1].mName
                           ELSE garbage)
        /\ UNCHANGED <<list, compThread, model, sorted, walk, property, arrays>>
        /\ UNCHANGED serviceManagerVars

\* ComponentEntry::removeSupportedService(serviceName).
RemoveSupportedService(serviceName) ==
    LET r == removeEntryByName(component.mSupportedServices, serviceName)
    IN  /\ component' = [component EXCEPT !.mSupportedServices = r.mList]
        /\ lastCall' = Call("removeSupportedService", serviceName, FALSE,
                        component.mSupportedServices, INVALID_INDEX, "")
        /\ UNCHANGED <<list, compThread, model, sorted, walk, property, arrays>>
        /\ UNCHANGED serviceManagerVars

NextComponent ==
    \/ \E entry \in ServiceEntries : AddSupportedService(entry)
    \/ \E serviceList \in ServiceLists : AddSupportedServiceList(serviceList)
    \/ \E n \in ServiceNames, v \in Versions : AddSupportedServiceByName(n, v)
    \/ \E n \in ServiceNames : RemoveSupportedService(n)

SpecComponent == Init /\ [][NextComponent]_vars

----------------------------------------------------------------------------
(* NERegistry: one registry list, of service entries, of component entries *)
(* or of thread entries, under addEntry, placeEntry and removeEntry.       *)

ComponentEntries == {ComponentEntry(t, r) : t \in ThreadNames, r \in RoleNames}

\* Thread entries: without a component, and with one component whose data
\* tells the entries of one thread name apart.
ThreadEntries ==
    {ComponentThreadEntry(t, <<>>) : t \in ThreadNames}
    \cup {ComponentThreadEntry(t, <<[ComponentEntry(t, "Role1")
                                       EXCEPT !.mComponentData = d]>>) :
             t \in ThreadNames, d \in {InvalidElement, 1}}

\* Service entries of one name and version are equal in every field; the
\* entries of the other classes are equal by their names alone.
ListEntries == ServiceEntries \cup ComponentEntries \cup ThreadEntries

SameClass(a, b) ==
    (IsServiceEntry(a) = IsServiceEntry(b)) /\ (IsComponentEntry(a) = IsComponentEntry(b))

TEListBase_addEntry(entry, unique) ==
    LET r == addEntry(list, entry, unique)
    IN  /\ Len(list) < MaxEntries
        /\ list # <<>> => SameClass(list[1], entry)
        /\ list' = r.mList
        /\ lastCall' = Call("addEntry", entry, unique, list, r.result, "")
        /\ UNCHANGED <<component, compThread, model, sorted, walk, property, arrays>>
        /\ UNCHANGED serviceManagerVars

TEListBase_placeEntry(entry, unique) ==
    LET r == placeEntry(list, entry, unique)
    IN  /\ Len(list) < MaxEntries
        /\ list # <<>> => SameClass(list[1], entry)
        /\ list' = r.mList
        /\ lastCall' = Call("placeEntry", entry, unique, list, r.result, "")
        /\ UNCHANGED <<component, compThread, model, sorted, walk, property, arrays>>
        /\ UNCHANGED serviceManagerVars

TEListBase_removeEntry(entryName) ==
    LET r == removeEntryByName(list, entryName)
    IN  /\ list' = r.mList
        /\ lastCall' = Call("removeEntry", entryName, FALSE, list, INVALID_INDEX, "")
        /\ UNCHANGED <<component, compThread, model, sorted, walk, property, arrays>>
        /\ UNCHANGED serviceManagerVars

NextListBase ==
    \/ \E entry \in ListEntries, unique \in BOOLEAN : TEListBase_addEntry(entry, unique)
    \/ \E entry \in ListEntries, unique \in BOOLEAN : TEListBase_placeEntry(entry, unique)
    \/ \E entryName \in ServiceNames \cup RoleNames \cup ThreadNames :
          TEListBase_removeEntry(entryName)

SpecListBase == Init /\ [][NextListBase]_vars

----------------------------------------------------------------------------
(* NERegistry: a thread entry being declared.                              *)

NewComponentThreadEntry(threadName) ==
    /\ compThread' = ComponentThreadEntry(threadName, <<>>)
    /\ lastCall' = NoCall
    /\ UNCHANGED <<component, list, model, sorted, walk, property, arrays>>
    /\ UNCHANGED serviceManagerVars

AddComponent(entry) ==
    /\ Len(compThread.mComponents) < MaxComponents
    /\ compThread' = ComponentThreadEntry_addComponent(compThread, entry)
    /\ lastCall' = NoCall
    /\ UNCHANGED <<component, list, model, sorted, walk, property, arrays>>
    /\ UNCHANGED serviceManagerVars

AddComponentByName(roleName) ==
    LET r == ComponentThreadEntry_addComponentByName(compThread, roleName)
    IN  /\ Len(compThread.mComponents) < MaxComponents
        /\ compThread' = r.thread
        /\ lastCall' = NoCall
        /\ UNCHANGED <<component, list, model, sorted, walk, property, arrays>>
        /\ UNCHANGED serviceManagerVars

NextThreadEntry ==
    \/ \E threadName \in ThreadNames : NewComponentThreadEntry(threadName)
    \/ \E entry \in ComponentEntries : AddComponent(entry)
    \/ \E roleName \in RoleNames : AddComponentByName(roleName)

SpecThreadEntry == Init /\ [][NextThreadEntry]_vars

----------------------------------------------------------------------------
(* NERegistry: a model and the thread entries declared for it.             *)

\* The component entries declared for the threads of the model: one role
\* in both threads, and a second role.
DeclaredComponents ==
    {ComponentEntry("Thread1", "Role1"), ComponentEntry("Thread2", "Role1"),
     ComponentEntry("Thread1", "Role2")}

\* The component lists that addComponent builds from up to two of them.
ComponentLists ==
    {<<>>} \cup {ComponentList_addComponent(<<>>, e).mList : e \in DeclaredComponents}
           \cup {ComponentList_addComponent(
                     ComponentList_addComponent(<<>>, e).mList, f).mList :
                    e \in DeclaredComponents, f \in DeclaredComponents}

\* The thread entries handed to Model::addThread.
DeclaredThreads ==
    {ComponentThreadEntry(t, comps) : t \in ThreadNames, comps \in ComponentLists}

AddThread(entry) ==
    /\ model' = Model_addThread(model, entry)
    /\ lastCall' = NoCall
    /\ UNCHANGED <<component, list, compThread, sorted, walk, property, arrays>>
    /\ UNCHANGED serviceManagerVars

\* Model::addThread(threadList) with the list ComponentThreadList(entry),
\* empty when the entry is not valid.
AddThreadList(entry) ==
    /\ model' = Model_addThreadList(model,
                    IF ComponentThreadEntry_isValid(entry) THEN <<entry>> ELSE <<>>)
    /\ lastCall' = NoCall
    /\ UNCHANGED <<component, list, compThread, sorted, walk, property, arrays>>
    /\ UNCHANGED serviceManagerVars

\* The reference returned is mModelThreads[index]: the name of the thread
\* entry there, any name when the index is outside the list.
AddThreadByName(threadName) ==
    LET r == Model_addThreadByName(model, threadName)
    IN  /\ model' = r.model
        /\ \E garbage \in ThreadNames :
              lastCall' = Call("addThreadByName", threadName, TRUE, <<>>, r.index,
                           IF InBounds(r.model.mModelThreads, r.index)
                           THEN r.model.mModelThreads[r.index + 1].mThreadName
                           ELSE garbage)
        /\ UNCHANGED <<component, list, compThread, sorted, walk, property, arrays>>
        /\ UNCHANGED serviceManagerVars

RemoveThread(threadName) ==
    /\ model' = Model_removeThread(model, threadName)
    /\ lastCall' = NoCall
    /\ UNCHANGED <<component, list, compThread, sorted, walk, property, arrays>>
    /\ UNCHANGED serviceManagerVars

SetComponentData(roleName, compData) ==
    /\ model' = Model_setComponentData(model, roleName, compData)
    /\ lastCall' = NoCall
    /\ UNCHANGED <<component, list, compThread, sorted, walk, property, arrays>>
    /\ UNCHANGED serviceManagerVars

MarkModelLoaded(isLoaded) ==
    /\ model' = Model_markModelLoaded(model, isLoaded)
    /\ lastCall' = NoCall
    /\ UNCHANGED <<component, list, compThread, sorted, walk, property, arrays>>
    /\ UNCHANGED serviceManagerVars

NextRegistry ==
    \/ \E entry \in DeclaredThreads : AddThread(entry)
    \/ \E entry \in DeclaredThreads : AddThreadList(entry)
    \/ \E threadName \in ThreadNames : AddThreadByName(threadName)
    \/ \E threadName \in ThreadNames : RemoveThread(threadName)
    \/ \E roleName \in RoleNames : SetComponentData(roleName, 1)
    \/ \E isLoaded \in BOOLEAN : MarkModelLoaded(isLoaded)

SpecRegistry == Init /\ [][NextRegistry]_vars

----------------------------------------------------------------------------
(* TESortedLinkedList: a list of numbers under add, nextEntry and          *)
(* prevEntry.                                                              *)

Values == {1, 2, 3}

\* The value of the caller's variable before nextEntry or prevEntry.
NO_VALUE == 0

SortedList(sortAscending) ==
    /\ sorted' = NewSortedList(sortAscending)
    /\ walk' = NoWalk
    /\ UNCHANGED <<registryVars, property, arrays>>
    /\ UNCHANGED serviceManagerVars

\* add(newElement).  Reading block->mPrev of a null block is undefined:
\* the process faults, or the block is linked at some place of the list.
Add(newElement) ==
    LET r == _add(sorted, newElement)
    IN  /\ ~sorted.fault
        /\ Len(sorted.mValues) < MaxSize
        /\ IF r.nullUsed
           THEN \/ sorted' = [sorted EXCEPT !.fault = TRUE]
                \/ \E place \in 1..(Len(sorted.mValues) + 1) :
                      sorted' = [sorted EXCEPT
                                    !.mValues = LinkBefore(@, newElement, place)]
           ELSE sorted' = [sorted EXCEPT !.mValues = r.mValues]
        /\ walk' = [NoWalk EXCEPT !.op = "add", !.given = newElement,
                                  !.size = Len(sorted.mValues),
                                  !.nullUsed = r.nullUsed]
        /\ UNCHANGED <<registryVars, property, arrays>>
        /\ UNCHANGED serviceManagerVars

NextEntry(position) ==
    LET r == nextEntry(sorted.mValues, position, NO_VALUE)
    IN  /\ ~sorted.fault
        /\ position \in 1..Len(sorted.mValues)
        /\ walk' = [NoWalk EXCEPT !.op = "nextEntry", !.at = position,
                                  !.given = NO_VALUE, !.pos = r.pos, !.out = r.out,
                                  !.result = r.result]
        /\ UNCHANGED <<sorted, registryVars, property, arrays>>
        /\ UNCHANGED serviceManagerVars

PrevEntry(position) ==
    LET r == prevEntry(sorted.mValues, position, NO_VALUE)
    IN  /\ ~sorted.fault
        /\ position \in 1..Len(sorted.mValues)
        /\ walk' = [NoWalk EXCEPT !.op = "prevEntry", !.at = position,
                                  !.given = NO_VALUE, !.pos = r.pos, !.out = r.out,
                                  !.result = r.result]
        /\ UNCHANGED <<sorted, registryVars, property, arrays>>
        /\ UNCHANGED serviceManagerVars

NextSortedList ==
    \/ \E sortAscending \in BOOLEAN : SortedList(sortAscending)
    \/ \E newElement \in Values : Add(newElement)
    \/ \E position \in 1..MaxSize : NextEntry(position)
    \/ \E position \in 1..MaxSize : PrevEntry(position)

SpecSortedList == Init /\ [][NextSortedList]_vars

----------------------------------------------------------------------------
(* Property: properties with a key and a value are written by convToString *)
(* and the text is read by parseProperty of a new Property.                *)

PropertyKeys == {<<"k">>, <<"a", ".", "b">>, <<"k", "1">>}
PropertyValues == {<<"v">>, <<"1", "0">>, <<"o", "n">>}

\* No comment, a short one, one of 64 characters, one of two lines, and a
\* short one without the comment mark.
Comments ==
    {<<>>,
     <<"#", " ", "c">>,
     [i \in 1..LONG_COMMENT |-> IF i = 1 THEN "#" ELSE IF i = 2 THEN " " ELSE "c"],
     <<"#", " ", "a", "\n", "#", " ", "b">>,
     <<"c">>}

InitProperty ==
    /\ InitServiceManager
    /\ InitRegistry
    /\ sorted = NewSortedList(TRUE)
    /\ walk = NoWalk
    /\ \E k \in PropertyKeys, v \in PropertyValues, c \in Comments :
          property = Unwritten(NewProperty(k, v, c))
    /\ arrays = NoArrays

ConvToString ==
    /\ property.stage = "made"
    /\ property' = [property EXCEPT !.stage = "written",
                                    !.text = convToString(property.prop)]
    /\ UNCHANGED <<registryVars, sorted, walk, arrays>>
    /\ UNCHANGED serviceManagerVars

ParseProperty ==
    /\ property.stage = "written"
    /\ property' = [property EXCEPT !.stage = "read",
                                    !.parsed = parseProperty(EmptyProperty, property.text)]
    /\ UNCHANGED <<registryVars, sorted, walk, arrays>>
    /\ UNCHANGED serviceManagerVars

NextProperty ==
    \/ ConvToString
    \/ ParseProperty

SpecProperty == InitProperty /\ [][NextProperty]_vars

----------------------------------------------------------------------------
(* TEFixedArray: every pair of arrays of up to MaxElems elements, of one   *)
(* object or of two, compared with operator== and operator!=.              *)

Elems == {1, 2}

FixedArrays == UNION {[1..n -> Elems] : n \in 0..MaxElems}

InitFixedArray ==
    /\ InitServiceManager
    /\ InitRegistry
    /\ sorted = NewSortedList(TRUE)
    /\ walk = NoWalk
    /\ property = Unwritten(EmptyProperty)
    /\ \E a \in FixedArrays, b \in FixedArrays, sameObject \in BOOLEAN :
          /\ sameObject => (a = b)
          /\ arrays = Uncompared(a, b, sameObject)

OperatorEqual ==
    /\ ~arrays.eqDone
    /\ arrays' = [arrays EXCEPT !.eqDone = TRUE,
                                !.eq = operatorEqual(arrays.a, arrays.b, arrays.sameObject)]
    /\ UNCHANGED <<registryVars, sorted, walk, property>>
    /\ UNCHANGED serviceManagerVars

OperatorNotEqual ==
    /\ ~arrays.neDone
    /\ arrays' = [arrays EXCEPT !.neDone = TRUE,
                                !.ne = operatorNotEqual(arrays.a, arrays.b,
                                                        arrays.sameObject)]
    /\ UNCHANGED <<registryVars, sorted, walk, property>>
    /\ UNCHANGED serviceManagerVars

NextFixedArray ==
    \/ OperatorEqual
    \/ OperatorNotEqual

SpecFixedArray == InitFixedArray /\ [][NextFixedArray]_vars

----------------------------------------------------------------------------
(* Views of the state used by the properties.                              *)

\* The positions <<entry, client>> at which the directory lists a proxy.
ListedAt(d, p) ==
    UNION {{<<i, k>> : k \in {n \in 1..Len(d[i].clients) :
                                AddressEqual(d[i].clients[n].addr, p)}} :
           i \in 1..Len(d)}

\* The registered (non-pending) stub addresses of the directory.
StubsOf(d) == {d[i].server.addr : i \in {j \in 1..Len(d) : ~isPendingServer(d[j].server)}}

NoneLive == \A k \in 1..Len(Registrants) : live[k] = "none"

\* The directory lists proxy p as Connected under the registered stub s.
ConnectedUnder(d, p, s) ==
    \E i \in 1..Len(d) :
        /\ d[i].server = ServerInfo(s, ServiceConnected)
        /\ \E k \in 1..Len(d[i].clients) : d[i].clients[k] = ClientInfo(p, ServiceConnected)

\* The directory lists proxy p with the given status under a pending entry.
WaitingUnderPending(d, p, serverStatus) ==
    \E i \in 1..Len(d) :
        /\ d[i].key = KeyOf(p)
        /\ d[i].server = ServerInfo(EmptyAddress, serverStatus)
        /\ \E k \in 1..Len(d[i].clients) : d[i].clients[k] = ClientInfo(p, ServicePending)

\* How often an event occurs in a sequence of events.
Count(ev, e) == Cardinality({n \in 1..Len(ev) : ev[n] = e})

\* The positions of the ProxyConnect events of a status delivered to proxy p.
ProxyNotices(ev, p, status) ==
    {n \in 1..Len(ev) : /\ ev[n].kind = "ProxyConnect"
                        /\ ev[n].proxy = p
                        /\ ev[n].status = status}

\* The local stubs and proxies of the model, and the pairs that share a key.
LocalPairs ==
    {sp \in Stubs \X Proxies :
        /\ sp[1].cookie = COOKIE_LOCAL
        /\ sp[2].cookie = COOKIE_LOCAL
        /\ KeyOf(sp[1]) = KeyOf(sp[2])}

----------------------------------------------------------------------------
(* C1: the directory holds at most one server entry for each               *)
(* (interface, role) pair, and a registered stub is filed under its own    *)
(* (interface, role).                                                      *)
C1_OneEntryPerKey ==
    /\ \A i, j \in 1..Len(dir) : dir[i].key = dir[j].key => i = j
    /\ \A i \in 1..Len(dir) :
        ~isPendingServer(dir[i].server) => KeyOf(dir[i].server.addr) = dir[i].key

\* A stub has registered onto the entry its waiting proxy had created, next
\* to the entry of another role.
C1_Witness ==
    /\ last.cmd.cmd = "RegisterStub"
    /\ Len(last.dir) = 2
    /\ Len(dir) = 2
    /\ last.dir # dir

----------------------------------------------------------------------------
(* C2 as claimed: until the Service Manager shuts down, a proxy whose       *)
(* RegisterProxy was processed, with no later UnregisterProxy, is listed   *)
(* exactly once; a proxy whose UnregisterProxy was processed (or that      *)
(* never registered) is listed nowhere.                                    *)
C2_ListedUntilUnregisterProxy ==
    \A p \in Proxies :
        /\ Live(p) \in {"registered", "lost"} => Cardinality(ListedAt(dir, p)) = 1
        /\ Live(p) = "none" => ListedAt(dir, p) = {}

(* C2, amended: a proxy is listed, exactly once and so under exactly one   *)
(* server entry, as long as its RegisterProxy was processed and since then *)
(* neither its UnregisterProxy, nor a connection loss (for a public remote *)
(* proxy), nor a shutdown was processed; otherwise it is listed nowhere.   *)
C2_ListedWhileRegistered ==
    \A p \in Proxies :
        /\ Live(p) = "registered" => Cardinality(ListedAt(dir, p)) = 1
        /\ Live(p) # "registered" => ListedAt(dir, p) = {}

\* UnregisterProxy has removed a listed proxy from a list that keeps another.
C2_Witness ==
    /\ last.cmd.cmd = "UnregisterProxy"
    /\ ListedAt(last.dir, last.cmd.addr) # {}
    /\ ListedAt(dir, last.cmd.addr) = {}
    /\ \E q \in Proxies : Live(q) = "registered" /\ KeyOf(q) = KeyOf(last.cmd.addr)

----------------------------------------------------------------------------
(* C3: when every register command processed has been answered by its      *)
(* unregister command, the directory is empty.                             *)
C3_EmptyWhenAllUnregistered == NoneLive => dir = <<>>

\* The last of two unregisters empties the directory: the proxy leaves the
\* pending entry that its stub left behind.
C3_Witness ==
    /\ NoneLive
    /\ last.cmd.cmd = "UnregisterProxy"
    /\ Len(last.dir) = 1
    /\ isPendingServer(last.dir[1].server)
    /\ last.dir[1].server.status = ServiceDisconnected
    /\ dir = <<>>

----------------------------------------------------------------------------
(* C4: a listed client is Connected exactly when its server entry is       *)
(* Connected and the stub is public or stub and proxy are both local.      *)
C4_ConnectedIffCompatible ==
    \A i \in 1..Len(dir) : \A k \in 1..Len(dir[i].clients) :
        LET stub == dir[i].server.addr
            proxy == dir[i].clients[k].addr
        IN dir[i].clients[k].status = ServiceConnected
            <=> /\ dir[i].server.status = ServiceConnected
                /\ stub.iface = proxy.iface /\ stub.role = proxy.role
                /\ \/ stub.cat = "public"
                   \/ stub.cookie = COOKIE_LOCAL /\ proxy.cookie = COOKIE_LOCAL

\* A connected local-category stub lists a connected local proxy and a
\* waiting remote one.
C4_Witness ==
    \E i \in 1..Len(dir) :
        /\ dir[i].server.status = ServiceConnected
        /\ dir[i].server.addr.cat = "local"
        /\ \E k \in 1..Len(dir[i].clients) : dir[i].clients[k].status = ServiceConnected
        /\ \E k \in 1..Len(dir[i].clients) :
            /\ dir[i].clients[k].status = ServicePending
            /\ dir[i].clients[k].addr.cookie = COOKIE_REMOTE

----------------------------------------------------------------------------
(* C5: for a local stub S and a local proxy P of one (interface, role),    *)
(* when only the first of the two registrations has been processed no      *)
(* connect event has been emitted, and when the second has been processed  *)
(* the events emitted are exactly StubConnect(Connected) to S naming P     *)
(* and ProxyConnect(Connected) to P naming S, in either order of the two   *)
(* registrations.                                                          *)
C5_PairOfConnectedEvents ==
    \A sp \in LocalPairs :
        LET S == sp[1]
            P == sp[2]
            pair == <<StubConnectEvent(P, S, ServiceConnected),
                      ProxyConnectEvent(P, S, ServiceConnected)>>
        IN /\ (posted = 1 /\ last.cmd \in {Command("RegisterStub", S),
                                           Command("RegisterProxy", P)})
                => events = <<>>
           /\ (/\ posted = 2 /\ queue = <<>>
               /\ last.cmd = Command("RegisterStub", S)
               /\ ListedAt(last.dir, P) # {})
                => events = pair
           /\ (/\ posted = 2 /\ queue = <<>>
               /\ last.cmd = Command("RegisterProxy", P)
               /\ S \in StubsOf(last.dir))
                => events = pair

\* The late stub: the proxy registered first, then the stub.
C5_Witness ==
    /\ posted = 2 /\ queue = <<>>
    /\ last.cmd = Command("RegisterStub", StubLocal)
    /\ ListedAt(last.dir, ProxyLocal) # {}
    /\ Len(events) = 2

----------------------------------------------------------------------------
(* C6: Connected notifications and matches.                                *)

\* Every Connected event of the last step names a pair that the directory
\* now holds connected and compatible, and was caused by the registration
\* of one of the two.
ConnectedOnlyForMatched ==
    \A n \in 1..Len(last.ev) :
        LET e == last.ev[n] IN
        e.status = ServiceConnected =>
            /\ ConnectedUnder(dir, e.proxy, e.stub)
            /\ e.stub.iface = e.proxy.iface /\ e.stub.role = e.proxy.role
            /\ \/ e.stub.cat = "public"
               \/ e.stub.cookie = COOKIE_LOCAL /\ e.proxy.cookie = COOKIE_LOCAL
            /\ last.cmd \in {Command("RegisterStub", e.stub),
                             Command("RegisterProxy", e.proxy)}

\* The last step matched proxy p with stub s: a stub registration that
\* connected the waiting p, or the registration of p under the live s.
MatchedByLast(p, s) ==
    /\ ConnectedUnder(dir, p, s)
    /\ \/ last.cmd = Command("RegisterStub", s) /\ ~ConnectedUnder(last.dir, p, s)
       \/ last.cmd = Command("RegisterProxy", p)

(* C6 as claimed: a Connected notification is emitted to proxy p for       *)
(* (p, s) if and only if p and s have just been matched.                   *)
C6_ConnectedIffMatched ==
    /\ ConnectedOnlyForMatched
    /\ \A p \in Proxies : \A s \in Stubs :
        MatchedByLast(p, s)
            => Count(last.ev, ProxyConnectEvent(p, s, ServiceConnected)) = 1

(* C6, amended: a Connected notification is emitted to a proxy p that is   *)
(* local to the process for (p, s) if and only if p and s have just been   *)
(* matched; a matched remote proxy gets no event from this Service         *)
(* Manager; no Connected event names an incompatible pair or an address    *)
(* that is not in the directory.                                           *)
C6_LocalConnectedIffMatched ==
    /\ ConnectedOnlyForMatched
    /\ \A p \in Proxies : \A s \in Stubs :
        MatchedByLast(p, s)
            => Count(last.ev, ProxyConnectEvent(p, s, ServiceConnected))
                    = IF p.cookie = COOKIE_LOCAL THEN 1 ELSE 0

\* A stub registration has matched a remote and a local waiting proxy.
C6_Witness ==
    /\ last.cmd = Command("RegisterStub", StubLocal)
    /\ MatchedByLast(ProxyRemote, StubLocal)
    /\ MatchedByLast(ProxyLocal, StubLocal)
    /\ Count(last.ev, ProxyConnectEvent(ProxyLocal, StubLocal, ServiceConnected)) = 1

----------------------------------------------------------------------------
(* C7: every Connected notification for (p, s) delivered to p is answered  *)
(* by a Disconnected one: no Disconnected comes without a Connected before *)
(* it, and once p is no longer connected to s (s or p unregistered, the    *)
(* connection lost, or the Service Manager shut down) the notification     *)
(* that p received last for (p, s) is not Connected.                       *)
C7_ConnectedIsAnswered ==
    \A p \in Proxies : \A s \in Stubs :
        LET conn == {n \in ProxyNotices(events, p, ServiceConnected) : events[n].stub = s}
            disc == {n \in ProxyNotices(events, p, ServiceDisconnected) : events[n].stub = s}
        IN /\ \A n \in disc : \E m \in conn : m < n
           /\ (conn # {} /\ ~ConnectedUnder(dir, p, s))
                => \E n \in disc : \A m \in conn : m < n

----------------------------------------------------------------------------
(* C8: processing ShutdownService delivers one ProxyConnect(Disconnected)  *)
(* to every local proxy that was registered and waiting, and the queue is  *)
(* empty when the thread has ended.                                        *)
C8_ShutdownNotifiesWaitingProxies ==
    /\ last.cmd.cmd = "ShutdownService" =>
        \A p \in Proxies :
            (p.cookie = COOKIE_LOCAL /\ WaitingUnderPending(last.dir, p, ServicePending))
                => Cardinality(ProxyNotices(last.ev, p, ServiceDisconnected)) = 1
    /\ thread = "exited" => queue = <<>>

----------------------------------------------------------------------------
----------------------------------------------------------------------------
----------------------------------------------------------------------------
(* C11: when a stub is registered for an (interface, role), processing     *)
(* RegisterStub of a different stub address for the same (interface, role) *)
(* leaves the directory as it was and emits no connect or disconnect       *)
(* event.                                                                  *)
C11_DuplicateStubRejected ==
    \A s \in Stubs :
        (/\ last.cmd = Command("RegisterStub", s)
         /\ \E t \in StubsOf(last.dir) : KeyOf(t) = KeyOf(s) /\ ~AddressEqual(t, s))
            => dir = last.dir /\ last.ev = <<>>

\* The remote stub of the role registers while the local stub holds the
\* role with a connected proxy.
C11_Witness ==
    /\ last.cmd = Command("RegisterStub", StubRemote)
    /\ ConnectedUnder(last.dir, ProxyLocal, StubLocal)
    /\ ConnectedUnder(dir, ProxyLocal, StubLocal)

----------------------------------------------------------------------------
(* C12: with a remote public proxy P connected to a local stub S,          *)
(* processing LostConnection removes P from the directory, emits no        *)
(* ProxyConnect to P and exactly one StubConnect, Disconnected, to S       *)
(* naming P; S stays registered and Connected.                             *)
C12_LostConnectionDropsRemoteProxy ==
    \A s \in Stubs : \A p \in Proxies :
        (/\ last.cmd.cmd = "LostConnection"
         /\ s.cookie = COOKIE_LOCAL
         /\ p.cookie # COOKIE_LOCAL /\ p.cat = "public"
         /\ ConnectedUnder(last.dir, p, s))
            => /\ ListedAt(dir, p) = {}
               /\ \A n \in 1..Len(last.ev) :
                    last.ev[n].proxy = p => last.ev[n].kind = "StubConnect"
               /\ Count(last.ev, StubConnectEvent(p, s, ServiceDisconnected)) = 1
               /\ Cardinality({n \in 1..Len(last.ev) : last.ev[n].proxy = p}) = 1
               /\ \E i \in 1..Len(dir) : dir[i].server = ServerInfo(s, ServiceConnected)

\* The connection is lost while the local stub serves a remote and a local
\* proxy: the local proxy stays connected.
C12_Witness ==
    /\ last.cmd.cmd = "LostConnection"
    /\ ConnectedUnder(last.dir, ProxyRemote, StubLocal)
    /\ ConnectedUnder(dir, ProxyLocal, StubLocal)
    /\ ListedAt(dir, ProxyRemote) = {}

----------------------------------------------------------------------------
\* The positions of all ProxyConnect events delivered to proxy p.
NoticesTo(ev, p) == {n \in 1..Len(ev) : ev[n].kind = "ProxyConnect" /\ ev[n].proxy = p}

\* No proxy is told Connected twice without a Disconnected in between.
ConnectedAlternates ==
    \A p \in Proxies : \A m, n \in ProxyNotices(events, p, ServiceConnected) :
        m < n => \E k \in ProxyNotices(events, p, ServiceDisconnected) : m < k /\ k < n

\* The last notification a proxy received tells the state of the directory.
LastNoticeMatchesDirectory ==
    \A p \in Proxies :
        NoticesTo(events, p) # {} =>
            LET n == CHOOSE k \in NoticesTo(events, p) : \A j \in NoticesTo(events, p) : j <= k
            IN IF events[n].status = ServiceConnected
               THEN ConnectedUnder(dir, p, events[n].stub)
               ELSE \A s \in Stubs : ~ConnectedUnder(dir, p, s)

(* C13: the notifications of a proxy follow the order of the commands that *)
(* cause them: a proxy is never told Connected twice without a             *)
(* Disconnected in between, and the notification it received last tells    *)
(* the current state of the directory.                                     *)
C13_NotificationsFollowCommands ==
    /\ ConnectedAlternates
    /\ LastNoticeMatchesDirectory

----------------------------------------------------------------------------
\* The calls by which the router adapter learns of a stub or a proxy.
AnnounceCalls ==
    {"registerService", "unregisterService",
     "registerServiceClient", "unregisterServiceClient"}

(* C16: in every command handler the router adapter's registerService,     *)
(* unregisterService, registerServiceClient and unregisterServiceClient    *)
(* are called only with an address that is local to this process and of    *)
(* public category.                                                        *)
C16_RouterSeesOnlyLocalPublic ==
    \A n \in 1..Len(last.rc) :
        last.rc[n].call \in AnnounceCalls
            => /\ last.rc[n].addr.cookie = COOKIE_LOCAL
               /\ last.rc[n].addr.cat = "public"

\* RegisterConnection over a directory that holds a local-category stub, a
\* remote proxy and a local public stub: only the last one is announced.
C16_Witness ==
    /\ last.cmd.cmd = "RegisterConnection"
    /\ StubPrivate \in StubsOf(last.dir)
    /\ ListedAt(last.dir, ProxyRemote) # {}
    /\ last.rc = <<RouterCall("registerService", StubLocal)>>

----------------------------------------------------------------------------
\* The exit marker is in the queue: a handler has asked the dispatcher to end.
ExitPending == \E n \in 1..Len(queue) : queue[n] = ExitEvent

(* C18: processing ShutdownService discards the commands that wait in the  *)
(* queue, empties the directory, stops the router and makes the dispatcher *)
(* exit: the exit marker is at the head of the queue, and while it is      *)
(* there no command, enqueued before or after, is processed, the directory *)
(* does not change and no event is emitted.                                *)
C18_ShutdownDropsQueue ==
    /\ [](last.cmd.cmd = "ShutdownService" =>
            /\ dir = <<>>
            /\ ~router.started
            /\ last.ev = <<>>
            /\ (thread = "running" /\ ExitPending) => Head(queue) = ExitEvent)
    /\ [][(thread = "running" /\ queue # <<>> /\ Head(queue) = ExitEvent)
            => /\ dir' = dir /\ events' = events /\ last' = last
               /\ thread' = "exited" => queue' = <<>>]_vars

\* ShutdownService was processed with a command waiting behind it, and the
\* thread has ended with the directory as the shutdown left it.
C18_Witness ==
    /\ last.cmd.cmd = "ShutdownService"
    /\ last.pending # <<>>
    /\ last.dir # <<>>
    /\ thread = "exited"
    /\ queue = <<>>
    /\ dir = <<>>

----------------------------------------------------------------------------
(* C19: the commands that wait in the queue when StopRoutingClient is      *)
(* processed stay in the queue, ahead of the exit, to be dispatched before *)
(* the dispatcher ends; with ShutdownService they are dropped.             *)
C19_SoftShutdownDrains ==
    (thread = "running" /\ ExitPending) =>
        /\ last.cmd.cmd = "StopRoutingClient" =>
                /\ Len(queue) >= Len(last.pending)
                /\ SubSeq(queue, 1, Len(last.pending)) = last.pending
        /\ last.cmd.cmd = "ShutdownService" => Head(queue) = ExitEvent

----------------------------------------------------------------------------
\* The dispatcher thread has taken the command at the head of the queue and
\* processed it.
Dispatched ==
    /\ thread = "running" /\ thread' = "running"
    /\ queue # <<>>
    /\ last'.cmd = Head(queue)
    /\ last'.pending = Tail(queue)
    /\ queue' \in {Tail(queue), <<ExitEvent>>}

(* C14: a call of the request API or of a routingService function only     *)
(* enqueues a command: the step that lengthens the queue leaves the        *)
(* directory and the router as they are, and the directory or the router   *)
(* change only in a step in which the Service Manager thread takes a       *)
(* command from the queue and processes it.                                *)
C14_RequestsOnlyEnqueue ==
    [][/\ Len(queue') > Len(queue) => (dir' = dir /\ router' = router)
       /\ (dir' # dir \/ router' # router) => Dispatched]_vars

\* A request and a routing call wait in the queue, unprocessed, while the
\* directory and the router hold what earlier commands made of them.
C14_Witness ==
    /\ Len(queue) = 2
    /\ queue[1].cmd = "StartConnection"
    /\ queue[2].cmd = "RegisterStub"
    /\ router.configured /\ ~router.started
    /\ dir # <<>>

----------------------------------------------------------------------------
(* C17: postEvent returns true, and enqueues, only for a                   *)
(* ServiceManagerEvent; for an event of another class it returns false,    *)
(* destroys the event and leaves the queue and the directory unchanged.    *)
C17_PostEventTypeCheck ==
    /\ [](/\ posting.result => posting.class = "ServiceManagerEvent"
          /\ posting.class = ComponentEvent.class
                => ~posting.result /\ posting.destroyed
          /\ \A n \in 1..Len(queue) : queue[n] # ComponentEvent.data)
    /\ [][(posting' # posting /\ posting'.class = ComponentEvent.class)
            => queue' = queue /\ dir' = dir]_vars

\* An event of another class was posted to the running dispatcher, whose
\* queue holds a command.
C17_Witness ==
    /\ posting = [class |-> ComponentEvent.class, result |-> FALSE, destroyed |-> TRUE]
    /\ thread = "running"
    /\ queue # <<>>
    /\ dir # <<>>

----------------------------------------------------------------------------
(* C15: the Service Manager thread holds mLock whenever it is inside a     *)
(* mutation of the directory, so getServiceList never reads while a        *)
(* mutation is under way, and every address it returns was in the          *)
(* directory at some moment during the call.                               *)
C15_SnapshotUnderMutex ==
    /\ handler = "mutating" => mLock = "manager"
    /\ ~(handler = "mutating" /\ reader.pc = "reading")
    /\ reader.out \subseteq reader.present

----------------------------------------------------------------------------
(* C20: processing RegisterStub, RegisterProxy, UnregisterStub or          *)
(* UnregisterProxy with an address whose interface name or role name is    *)
(* empty leaves the directory unchanged and emits no connect event.        *)
C20_InvalidAddressDropped ==
    (/\ last.cmd.cmd \in DirectoryCommands
     /\ ~(last.cmd.addr.iface # "" /\ last.cmd.addr.role # ""))
        => dir = last.dir /\ last.ev = <<>>

----------------------------------------------------------------------------
(* Views of the registry used by the properties.                           *)

\* The component entries of a model, thread after thread.
RECURSIVE ComponentsOf(_)
ComponentsOf(threads) ==
    IF threads = <<>> THEN <<>>
    ELSE Head(threads).mComponents \o ComponentsOf(Tail(threads))

\* No two elements of the list have the same name.
UniqueNames(mList) ==
    \A i, j \in 1..Len(mList) :
        (Entry_getName(mList[i]) = Entry_getName(mList[j])) => (i = j)

IsAdd(c) == c.op \in {"addEntry", "placeEntry"}

\* What add-with-dedup does with an entry: the list after the call and the
\* index returned, for the list before the call.
Deduplicated(c, after) ==
    LET hits == EqualTo(c.before, c.arg)
        first == CHOOSE i \in hits : \A j \in hits : i <= j
    IN  IF hits # {}
        THEN /\ Len(after) = Len(c.before)
             /\ after[first] = c.arg
             /\ \A k \in 1..Len(after) : (k # first) => (after[k] = c.before[k])
             /\ c.result = first - 1
        ELSE /\ after = Append(c.before, c.arg)
             /\ c.result = Len(c.before)

Appended(c, after) == after = Append(c.before, c.arg)

----------------------------------------------------------------------------
(* C21: once a model is marked loaded, no call of addThread, removeThread  *)
(* or setComponentData changes its thread list or its component entries.   *)
C21_LoadedModelIsFrozen ==
    [][model.mIsLoaded => (model'.mModelThreads = model.mModelThreads)]_vars

----------------------------------------------------------------------------
(* C22: after any sequence of addSupportedService calls, no two entries of *)
(* the supported-service list of a component have the same service name.   *)
C22_ServiceNamesUnique == UniqueNames(component.mSupportedServices)

----------------------------------------------------------------------------
(* C23: no two component entries of a model, of one thread or of two, have *)
(* the same role name, and no two thread entries have the same thread name.*)
C23_RoleAndThreadNamesUnique ==
    /\ UniqueNames(ComponentsOf(model.mModelThreads))
    /\ UniqueNames(model.mModelThreads)

----------------------------------------------------------------------------
(* C24 as claimed: addEntry and placeEntry with unique = true overwrite    *)
(* the equal entry in place, leave the length and the other entries as     *)
(* they are and return its index, or append the entry and return the       *)
(* previous length when no entry is equal; with unique = false the entry   *)
(* is always appended.                                                     *)
C24_AddWithDedup ==
    IsAdd(lastCall) =>
        IF lastCall.unique THEN Deduplicated(lastCall, list) ELSE Appended(lastCall, list)

(* C24, amended: the above holds for an entry that is valid, and with      *)
(* unique = false the index returned is the previous length; an entry that *)
(* is not valid is never added, whatever unique is: the list stays as it   *)
(* is and INVALID_INDEX is returned.                                       *)
C24_AddValidWithDedup ==
    IsAdd(lastCall) =>
        IF Entry_isValid(lastCall.arg)
        THEN IF lastCall.unique
             THEN Deduplicated(lastCall, list)
             ELSE Appended(lastCall, list) /\ lastCall.result = Len(lastCall.before)
        ELSE (list = lastCall.before) /\ (lastCall.result = INVALID_INDEX)

\* The first of two entries was overwritten in place by an equal entry
\* with other data; the second stayed.
C24_Witness ==
    /\ lastCall.op = "addEntry"
    /\ lastCall.unique
    /\ Len(list) = 2
    /\ lastCall.result = 0
    /\ list[1] = lastCall.arg
    /\ list[1] # lastCall.before[1]
    /\ list[2] = lastCall.before[2]

----------------------------------------------------------------------------
(* C25: Model::addThread(threadName) with a name that is not empty gives   *)
(* operator[] an index within the thread list, returns the thread entry of *)
(* that name, and findThread(threadName) finds the name afterwards.        *)
C25_AddThreadByNameReturnsEntry ==
    (lastCall.op = "addThreadByName" /\ lastCall.arg # "") =>
        /\ InBounds(model.mModelThreads, lastCall.result)
        /\ lastCall.ref = lastCall.arg
        /\ findEntryByName(model.mModelThreads, lastCall.arg) # INVALID_INDEX

----------------------------------------------------------------------------
(* C26: after any sequence of add calls the values from head to tail are   *)
(* in non-decreasing order in an ascending list and in non-increasing      *)
(* order in a descending list; every add makes the list one element longer *)
(* and uses no null position on a list that is not empty.                  *)
Ordered(values, sorting) ==
    \A i, j \in 1..Len(values) :
        (i < j) => IF sorting = SortAscending
                   THEN values[i] <= values[j]
                   ELSE values[i] >= values[j]

C26_AddKeepsOrder ==
    /\ Ordered(sorted.mValues, sorted.mSorting)
    /\ (walk.op = "add") =>
          /\ Len(sorted.mValues) = walk.size + 1
          /\ ~walk.nullUsed

----------------------------------------------------------------------------
(* C29: prevEntry at a position that has a previous element returns true,  *)
(* moves the position to the previous element and gives the value of that  *)
(* previous element; at the head it returns false, makes the position      *)
(* invalid and leaves the value as it was.                                 *)
C29_PrevEntryGivesPrevious ==
    (walk.op = "prevEntry") =>
        IF walk.at > 1
        THEN /\ walk.result
             /\ walk.pos = walk.at - 1
             /\ walk.out = sorted.mValues[walk.at - 1]
        ELSE /\ ~walk.result
             /\ walk.pos = INVALID_POSITION
             /\ walk.out = walk.given

----------------------------------------------------------------------------
(* C27: for a property with a valid key and a value that is not empty, and *)
(* for every comment, the text that convToString produces holds the        *)
(* key-value pair, and parseProperty of that text yields the same key and  *)
(* the same value.                                                         *)
C27_RoundTrip ==
    /\ (property.stage # "made") =>
          findFirst(property.text,
                    property.prop.key \o <<" ", "=", " ">> \o property.prop.value)
              # INVALID_POS
    /\ (property.stage = "read") =>
          /\ property.parsed.key = property.prop.key
          /\ property.parsed.value = property.prop.value

----------------------------------------------------------------------------
(* C28: for two arrays a and b, a != b is the negation of a == b: true     *)
(* exactly when the sizes differ or the elements at some index differ.     *)
Differ(a, b) == (Len(a) # Len(b)) \/ (\E i \in 1..Len(a) : a[i] # b[i])

C28_NotEqualNegatesEqual ==
    (arrays.eqDone /\ arrays.neDone) =>
        /\ arrays.ne = ~arrays.eq
        /\ arrays.ne = Differ(arrays.a, arrays.b)

----------------------------------------------------------------------------
(* C30: for Connected and for Disconnected, a StubConnect event is emitted *)
(* for a pair exactly when the stub is local and its source is resolved,   *)
(* and a ProxyConnect event exactly when the proxy is local and its source *)
(* is resolved; no event goes to an address whose source is not resolved.  *)
Resolved(a) == isLocalAddress(a) /\ (getSource(a) # SOURCE_UNKNOWN)

InEvents(ev, e) == \E n \in 1..Len(ev) : ev[n] = e

C30_EventsOnlyToResolved ==
    /\ \A n \in 1..Len(events) :
          IF events[n].kind = "StubConnect"
          THEN Resolved(events[n].stub)
          ELSE Resolved(events[n].proxy)
    /\ \A n \in 1..Len(last.ev) :
          LET e == last.ev[n] IN
          /\ Resolved(e.stub) <=>
                InEvents(last.ev, StubConnectEvent(e.proxy, e.stub, e.status))
          /\ Resolved(e.proxy) <=>
                InEvents(last.ev, ProxyConnectEvent(e.proxy, e.stub, e.status))

----------------------------------------------------------------------------
(* C31: whenever a StubConnect and a ProxyConnect event are emitted for the *)
(* same proxy, stub and status, the StubConnect event is emitted first: the *)
(* ProxyConnect event follows it at once and names the same two addresses   *)
(* and the same status.                                                     *)
C31_StubNotifiedBeforeProxy ==
    \A n \in 1..Len(events) :
        LET e == events[n]
            twin == StubConnectEvent(e.proxy, e.stub, e.status)
        IN (e.kind = "ProxyConnect" /\ InEvents(events, twin))
              => (n > 1 /\ events[n-1] = twin)

C31_Witness ==
    /\ last.cmd.cmd = "UnregisterProxy"
    /\ last.ev = <<StubConnectEvent(ProxyLocal, StubLocal, ServiceDisconnected),
                   ProxyConnectEvent(ProxyLocal, StubLocal, ServiceDisconnected)>>
    /\ InEvents(events, ProxyConnectEvent(ProxyLocal, StubLocal, ServiceConnected))

----------------------------------------------------------------------------
\* The stub addresses and the proxy addresses a directory holds that are
\* valid, of this process and public.
LocalPublic(a) == isValid(a) /\ isLocalAddress(a) /\ isServicePublic(a)

LocalPublicStubs(d) == {s \in {d[i].server.addr : i \in 1..Len(d)} : LocalPublic(s)}

LocalPublicProxies(d) ==
    {p \in UNION {{d[i].clients[k].addr : k \in 1..Len(d[i].clients)} : i \in 1..Len(d)} :
        LocalPublic(p)}

\* The calls a handler made to the router, as a set.
CallsOf(rc) == {rc[n] : n \in 1..Len(rc)}

(* C32: processing RegisterConnection announces to the router exactly the  *)
(* valid local public stubs (registerService) and the valid local public   *)
(* proxies (registerServiceClient) that the directory holds, each once; it *)
(* announces no pending stub, no remote and no local-category address,     *)
(* leaves the directory unchanged and emits no connect event.              *)
C32_ReannounceLocalPublic ==
    last.cmd.cmd = "RegisterConnection" =>
        LET expected ==
                {RouterCall("registerService", s) : s \in LocalPublicStubs(last.dir)}
                    \cup {RouterCall("registerServiceClient", p) :
                            p \in LocalPublicProxies(last.dir)}
        IN /\ CallsOf(last.rc) = expected
           /\ Len(last.rc) = Cardinality(expected)
           /\ dir = last.dir
           /\ last.ev = <<>>

\* The router comes online while the local stub serves the local and the
\* remote proxy: the stub and the local proxy are announced.
C32_Witness ==
    /\ last.cmd.cmd = "RegisterConnection"
    /\ ConnectedUnder(last.dir, ProxyLocal, StubLocal)
    /\ ConnectedUnder(last.dir, ProxyRemote, StubLocal)
    /\ last.rc = <<RouterCall("registerService", StubLocal),
                   RouterCall("registerServiceClient", ProxyLocal)>>

----------------------------------------------------------------------------
\* The proxy addresses listed in a directory.
ProxiesOf(d) ==
    UNION {{d[i].clients[k].addr : k \in 1..Len(d[i].clients)} : i \in 1..Len(d)}

(* C33: after UnregisterConnection or LostConnection is processed the      *)
(* directory holds no remote stub and no remote proxy; every local stub    *)
(* and every local proxy it held before is still there; a local proxy that *)
(* was connected to a remote stub has received exactly one ProxyConnect,   *)
(* Disconnected, and stays listed, waiting, under a pending entry.         *)
C33_RemoteLossKeepsLocal ==
    last.cmd.cmd \in {"UnregisterConnection", "LostConnection"} =>
        /\ \A s \in StubsOf(dir) : isLocalAddress(s)
        /\ \A p \in ProxiesOf(dir) : isLocalAddress(p)
        /\ \A s \in StubsOf(last.dir) : isLocalAddress(s) => s \in StubsOf(dir)
        /\ \A p \in ProxiesOf(last.dir) : isLocalAddress(p) => p \in ProxiesOf(dir)
        /\ \A s \in Stubs : \A p \in Proxies :
              (isRemoteAddress(s) /\ isLocalAddress(p) /\ ConnectedUnder(last.dir, p, s))
                 => /\ Cardinality(ProxyNotices(last.ev, p, ServiceDisconnected)) = 1
                    /\ Count(last.ev, ProxyConnectEvent(p, s, ServiceDisconnected)) = 1
                    /\ WaitingUnderPending(dir, p, ServiceDisconnected)
                    /\ Cardinality(ListedAt(dir, p)) = 1

\* The connection is lost while a local proxy is connected to the remote
\* stub and a local stub is registered under the other role.
C33_Witness ==
    /\ last.cmd.cmd = "LostConnection"
    /\ ConnectedUnder(last.dir, ProxyLocal, StubRemote)
    /\ StubPrivate \in StubsOf(last.dir)
    /\ StubPrivate \in StubsOf(dir)
    /\ WaitingUnderPending(dir, ProxyLocal, ServiceDisconnected)
    /\ last.ev = <<ProxyConnectEvent(ProxyLocal, StubRemote, ServiceDisconnected)>>

----------------------------------------------------------------------------
\* The router call without an address argument.
AdapterCall(call) == RouterCall(call, EmptyAddress)

(* C34: processing StartNetConnection enables the router, sets the         *)
(* explicit address and starts the router: startRemoteServicing has been   *)
(* invoked once the command is processed, whether or not the router had    *)
(* been configured before.                                                 *)
C34_StartNetAlwaysStarts ==
    last.cmd.cmd = "StartNetConnection" =>
        /\ router.enabled
        /\ AdapterCall("setRemoteServiceAddress") \in CallsOf(last.rc)
        /\ AdapterCall("startRemoteServicing") \in CallsOf(last.rc)

(* C34, amended: processing StartNetConnection enables the router and sets *)
(* the explicit address, and then invokes startRemoteServicing if and only *)
(* if the router reports itself configured at that point.                  *)
C34_StartNetStartsIfConfigured ==
    last.cmd.cmd = "StartNetConnection" =>
        /\ router.enabled
        /\ last.rc # <<>>
        /\ last.rc[1] = AdapterCall("setRemoteServiceAddress")
        /\ (AdapterCall("startRemoteServicing") \in CallsOf(last.rc)) <=> router.configured
        /\ router.configured => router.started
        /\ dir = last.dir /\ last.ev = <<>>

\* The explicit address configures the router, which is then started.
C34_Witness ==
    /\ last.cmd.cmd = "StartNetConnection"
    /\ last.rc = <<AdapterCall("setRemoteServiceAddress"),
                   AdapterCall("startRemoteServicing")>>
    /\ router.enabled /\ router.configured /\ router.started

----------------------------------------------------------------------------
\* The calls a command makes when it configures the router: always with a
\* given file, without one only while the router is not configured.
ConfigureCalls(rt, configFile) ==
    IF configFile # "" \/ ~rt.configured
    THEN <<AdapterCall("configureRemoteServicing")>>
    ELSE <<>>

(* C35: processing StartConnection enables the router, configures it if    *)
(* needed (always from a given file, from the default when no file is      *)
(* given and the router is not configured, so that a failed configuration  *)
(* is retried) and then starts it: startRemoteServicing is invoked if and  *)
(* only if the router is configured at that point.  ConfigureConnection    *)
(* makes the same enable and configure steps and never starts the router.  *)
C35_StartConfiguresThenStarts ==
    [][(Dispatched /\ Head(queue).cmd \in {"StartConnection", "ConfigureConnection"}) =>
          LET configure == ConfigureCalls(router, Head(queue).arg) IN
          /\ router'.enabled
          /\ dir' = dir /\ last'.ev = <<>>
          /\ IF Head(queue).cmd = "StartConnection"
             THEN /\ last'.rc = configure \o
                        (IF router'.configured
                         THEN <<AdapterCall("startRemoteServicing")>>
                         ELSE <<>>)
                  /\ router'.configured => router'.started
                  /\ ~router'.configured => router'.started = router.started
             ELSE /\ last'.rc = configure
                  /\ router'.started = router.started]_vars

\* A StartConnection without a file has configured the router from the
\* default and started it, and a ConfigureConnection waits in the queue.
C35_Witness ==
    /\ last.cmd = ArgCommand("StartConnection", "")
    /\ last.rc = <<AdapterCall("configureRemoteServicing"),
                   AdapterCall("startRemoteServicing")>>
    /\ router.enabled /\ router.configured /\ router.started
    /\ queue # <<>> /\ Head(queue).cmd = "ConfigureConnection"

----------------------------------------------------------------------------
\* The stub address is the registered stub of an entry of the directory.
RegisteredStub(d, s) == \E t \in StubsOf(d) : AddressEqual(t, s)

(* C36: processing UnregisterStub for a stub address that is absent from   *)
(* the directory, or whose (interface, role) entry holds a different stub  *)
(* address, is a silent no-op: the directory is unchanged, the registered  *)
(* stub keeps its clients and no disconnect event is emitted.              *)
C36_UnregisterUnknownStubIsNoOp ==
    \A s \in Stubs :
        (last.cmd = Command("UnregisterStub", s) /\ ~RegisteredStub(last.dir, s))
            => dir = last.dir /\ last.ev = <<>>

\* The remote stub of the role unregisters while the local stub holds the
\* role with a connected proxy, which stays connected.
C36_Witness ==
    /\ last.cmd = Command("UnregisterStub", StubRemote)
    /\ ConnectedUnder(last.dir, ProxyLocal, StubLocal)
    /\ ConnectedUnder(dir, ProxyLocal, StubLocal)
    /\ last.ev = <<>>

----------------------------------------------------------------------------
(* C37: RegisterStub is idempotent: processing RegisterStub of a stub that *)
(* is already the registered stub of its (interface, role) leaves the      *)
(* directory unchanged and emits no further Connected event, neither to    *)
(* the stub nor to any of its connected clients.                           *)
C37_RegisterStubIdempotent ==
    \A s \in Stubs :
        (last.cmd = Command("RegisterStub", s) /\ RegisteredStub(last.dir, s))
            => dir = last.dir /\ last.ev = <<>>

\* The local stub registers a second time while the local proxy is
\* connected to it: the proxy has been told Connected once.
C37_Witness ==
    /\ last.cmd = Command("RegisterStub", StubLocal)
    /\ ConnectedUnder(last.dir, ProxyLocal, StubLocal)
    /\ ConnectedUnder(dir, ProxyLocal, StubLocal)
    /\ Count(events, ProxyConnectEvent(ProxyLocal, StubLocal, ServiceConnected)) = 1
    /\ Count(events, StubConnectEvent(ProxyLocal, StubLocal, ServiceConnected)) = 1

----------------------------------------------------------------------------
\* The step processes a command that takes the stub out of the directory:
\* its own UnregisterStub, a remote loss when the stub is remote, a shutdown.
RemovesStub(s) ==
    /\ Dispatched
    /\ \/ Head(queue) = Command("UnregisterStub", s)
       \/ /\ Head(queue).cmd \in {"UnregisterConnection", "LostConnection"}
          /\ isRemoteAddress(s)
       \/ Head(queue).cmd \in {"ShutdownService", "StopRoutingClient"}

\* The step processes a command by which the proxy itself leaves: its own
\* UnregisterProxy, a remote loss when the proxy is remote.
ProxyLeaves(p) ==
    /\ Dispatched
    /\ \/ Head(queue) = Command("UnregisterProxy", p)
       \/ /\ Head(queue).cmd \in {"UnregisterConnection", "LostConnection"}
          /\ isRemoteAddress(p)

\* The events that the step adds to the history.
Emitted == SubSeq(events', Len(events) + 1, Len(events'))

(* C38: once RegisterStub of S is accepted for an (interface, role), S     *)
(* stays the registered stub of the entry and its connected clients stay   *)
(* Connected until UnregisterStub of S, a remote loss that removes S, or a *)
(* shutdown is processed: no RegisterStub or UnregisterStub of another     *)
(* stub address with the same (interface, role), and no RegisterProxy or   *)
(* UnregisterProxy of another proxy, changes the stub of the entry or      *)
(* disconnects a client, which leaves only by a command of its own.        *)
C38_FirstStubStays ==
    [][\A s \in Stubs :
          (RegisteredStub(dir, s) /\ ~RemovesStub(s)) =>
              /\ RegisteredStub(dir', s)
              /\ \A p \in Proxies :
                    ConnectedUnder(dir, p, s) =>
                        \/ ProxyLeaves(p)
                        \/ /\ ConnectedUnder(dir', p, s)
                           /\ \A n \in 1..Len(Emitted) :
                                ~(/\ Emitted[n].proxy = p
                                  /\ Emitted[n].status = ServiceDisconnected)]_vars

\* The remote proxy registers while the local stub serves the local proxy:
\* both are connected to the local stub and nobody was told Disconnected.
C38_Witness ==
    /\ last.cmd = Command("RegisterProxy", ProxyRemote)
    /\ ConnectedUnder(last.dir, ProxyLocal, StubLocal)
    /\ ConnectedUnder(dir, ProxyLocal, StubLocal)
    /\ ConnectedUnder(dir, ProxyRemote, StubLocal)
    /\ \A n \in 1..Len(events) : events[n].status = ServiceConnected

----------------------------------------------------------------------------
(* C39: starting the Service Manager is idempotent and serialized.         *)

\* The step in which caller c returns from _startServiceManagerThread.
Returns(c) == starter[c].pc = "checked" /\ starter'[c].pc = "idle"

\* C39: _startServiceManagerThread runs under the manager's lock, creates
\* the dispatcher thread only when the manager is not ready and no
\* dispatcher thread runs, returns true without creating anything when the
\* manager is ready, and returns false only when the creation has failed;
\* so the start calls of any number of threads leave at most one running
\* dispatcher thread.
C39_StartIdempotent ==
    [][ /\ starts' # starts => thread # "running" /\ mLock = "starter"
        /\ \A c \in Callers :
            /\ starter[c].pc \in {"locked", "checked"} => mLock = "starter"
            /\ Returns(c) =>
                /\ starter[c].ready = isReady(thread) \/ starter[c].ready
                /\ starter[c].ready =>
                    /\ starter'[c].result = "true"
                    /\ starts' = starts
                    /\ thread' = thread
                /\ ~starter[c].ready =>
                    /\ starter'[c].result = "true" <=>
                        (starts' = starts + 1 /\ thread' = "running")
                    /\ starter'[c].result = "false" <=>
                        (starts' = starts /\ thread' = thread)
                /\ \A o \in Callers \ {c} : starter[o].pc = "idle"
      ]_vars

\* Two threads have called: the first has created the dispatcher thread, the
\* second has found the manager ready and has returned true; one thread was
\* created and runs.
C39_Witness ==
    /\ starter[1].result = "true" /\ starter[1].created
    /\ starter[2].result = "true" /\ ~starter[2].created /\ starter[2].ready
    /\ starter[1].pc = "idle" /\ starter[2].pc = "idle"
    /\ thread = "running"
    /\ starts = 1

----------------------------------------------------------------------------
\* The router call that announces a registration command.
RouterCallOf(cmd) ==
    CASE cmd = "RegisterStub" -> "registerService"
      [] cmd = "UnregisterStub" -> "unregisterService"
      [] cmd = "RegisterProxy" -> "registerServiceClient"
      [] cmd = "UnregisterProxy" -> "unregisterServiceClient"

====
